---- MODULE Spec2Model ----
(***************************************************************************)
(* Model of the reth-cdk batch ingestion and finality pipeline:             *)
(*   - RollbackManager            (crates/cdk-finality/src/rollback.rs)     *)
(*   - HttpBatchSource            (crates/cdk-datastream/src/http_source.rs)*)
(*   - MemoryCheckpointStorage    (crates/cdk-datastream/src/checkpoint.rs) *)
(*   - MemoryMappingStorage       (crates/cdk-ingest/src/mapping.rs)        *)
(*   - IngestCommand::run         (crates/cdk-binaries/src/ingest.rs)       *)
(*   - FinalityCommand::run       (crates/cdk-binaries/src/finality.rs)     *)
(*   - BatchValidator             (crates/cdk-ingest/src/validator.rs)      *)
(*   - EngineFacade and its block importers and finality managers           *)
(*                                (crates/cdk-engine-facade/src)            *)
(*                                                                         *)
(* Option<T> is a sequence of length 0 (None) or 1 (Some).  A HashMap is a  *)
(* function whose DOMAIN is the set of stored keys.  Pass-through payload   *)
(* fields that no branch reads (l1 block numbers, tx hashes) are left out   *)
(* of the records.                                                          *)
(***************************************************************************)
EXTENDS Integers, Sequences, FiniteSets, TLC

\* ---------------------------------------------------------------- bounds
\* Largest batch number the environment delivers.
MaxBatch == 2
\* Largest required_confirmations a RollbackManager is constructed with.
MaxRequired == 2
\* Number of distinct batch hashes.
MaxHash == 2
\* Largest number of blocks in a delivered batch.
MaxBlocks == 1
\* Largest --max-batches argument; also caps processed_count when the
\* argument is 0 (unlimited).
MaxBatches == 2

\* Longest batch array the server answers with.
MaxResponseLen == 1
\* Latest clock reading, in seconds after the start of the command.
MaxTime == 2
\* Largest rollback_timeout (seconds) a RollbackManager is constructed with.
MaxTimeout == 1
\* Largest attempt number, short of the very large one, retry_delay is
\* called with.
MaxAttempt == 10
\* Most blocks in a batch handed to validate_batch, and the largest block
\* number and block timestamp in it.
MaxBlockCount == 2
MaxBlockNumber == 2
MaxTimestamp == 2
\* Longest argument, in characters, of the short arguments an RPC method is
\* called with.
MaxArgLen == 3
\* Most MemoryCheckpointStorage values (new or cloned) alive at a time.
MaxStorages == 3
\* Largest key (block number, batch id, epoch id) a caller of the
\* MappingStorage uses.
MaxKey == 1
\* Largest number of mappings the callers keep in the three stores together.
MaxStored == 2
\* Largest max_rollback_depth a RollbackManager is constructed with
\* (calculate_affected_blocks reports three blocks).
MaxDepth == 3
MaxFailures == 3

BatchIds == 1..MaxBatch
BatchNumbers == 0..MaxBatch
Hashes == 1..MaxHash

None == << >>
Some(x) == << x >>

EmptyMap == [k \in {} |-> 0]
\* HashMap::insert
MapInsert(m, k, v) == [x \in (DOMAIN m) \cup {k} |-> IF x = k THEN v ELSE m[x]]
\* HashMap::remove
MapRemove(m, k) == [x \in (DOMAIN m) \ {k} |-> m[x]]

VARIABLES
    \* RollbackManager
    config,              \* RollbackConfig
    rollback_history,    \* HashMap<u64, RollbackRecord>
    pending_rollbacks,   \* HashMap<u64, PendingRollback>
    last_update,         \* Option: argument of the latest process_finality_update
    result,              \* its return value
    \* observers of the RollbackManager calls
    pre_pending,         \* pending_rollbacks before the latest call
    pre_history,         \* rollback_history before the latest call
    rolled_back_run,     \* per batch: RolledBack events since the last Finalized
    finalized_seen,      \* batches for which a Finalized event was processed
    executed,            \* batches for which ExecuteRollback was emitted
    \* HttpBatchSource
    current_checkpoint,  \* Option<Checkpoint>
    next_result,         \* return value of the latest next()
    \* observers of the successful next() results
    prev_some,           \* Option: the successful result before the latest
    last_some,           \* Option: the latest successful result
    \* MemoryCheckpointStorage
    checkpoint_storage,  \* Option<Checkpoint>
    \* MemoryMappingStorage
    batch_mappings,      \* HashMap<u64, BatchMapping>
    block_mappings,      \* HashMap<u64, BlockMapping>
    epoch_mappings,      \* HashMap<u64, EpochMapping>
    \* observer of the MappingStorage calls
    last_call,           \* Option: the latest save_* / delete_* call
    \* IngestCommand::run
    max_batches,         \* --max-batches
    ingest_pc,           \* position in the loop
    inflight,            \* Option<Batch>: the batch returned by next()
    processed_count,
    \* observer of the ingestion loop
    ingested,            \* batch numbers in the order they were committed
    \* FinalityCommand::run
    finality_pc,
    \* environment of the two commands
    now,                 \* SystemTime::now() in seconds
    cancel,              \* a stop of the command has been requested
    \* EngineFacade
    facade,              \* the implementation behind the facade
    finalized_block,     \* RethEngineFacade.finalized_block
    last_tag,            \* Option: argument of the latest process_finality_tag
    tag_result,          \* its return value
    tag_calls,           \* the engine operations it invoked, in order
    \* MemoryCheckpointStorage values and the cells behind them
    storage_cells,       \* the allocated Arc<Mutex<Option<Checkpoint>>> cells
    storage_handles,     \* per MemoryCheckpointStorage value: its cell
    \* observers of the CheckpointStorage calls
    clone_of,            \* per value: the value it was cloned from (itself if new)
    expected_load,       \* per value: what the latest save / delete wrote
    \* retry_delay
    attempt,             \* Option: argument of the latest call
    delay,               \* Option: its return value
    prev_attempt,        \* Option: argument of the call before
    prev_delay,          \* Option: its return value
    \* CdkRpcApiImpl
    rpc_call,            \* Option: method and argument of the latest call
    rpc_result,          \* Option: its return value
    \* BatchValidator
    validator,           \* Option: the validator of the latest validate_batch
    candidate,           \* Option: the batch it was given
    verdict,             \* Option: its return value
    \* IngestCommand::run, the Err arm
    retry_wait,          \* Option: seconds the loop sleeps after a failed next()
    failures,            \* observer: failed next() calls in a row
    \* HttpBatchSource::next, the request
    requested_from,      \* Option: from_batch of the latest fetch_batches
    next_parity,         \* observer: flips at every call of next()
    \* RealFinalityOracle
    polling_interval,    \* seconds
    last_poll,           \* the Instant of the latest update_poll_time
    poll_result,         \* Option: return value of the latest poll()
    \* observers of poll()
    l1_queried,          \* whether the latest poll() queried L1
    last_success,        \* time of creation or of the latest poll() that
                         \* queried L1 and got an answer
    poll_parity,         \* flips at every call of poll()
    \* CdkRpcApiImpl::finalized_batch
    finalized_response   \* Option: its latest return value

manager_vars == << config, rollback_history, pending_rollbacks, last_update, result >>
manager_obs == << pre_pending, pre_history, rolled_back_run, finalized_seen,
                 executed >>
source_vars == << current_checkpoint, next_result >>
source_obs == << prev_some, last_some >>
mapping_vars == << batch_mappings, block_mappings, epoch_mappings >>
mapping_obs == << last_call >>
ingest_vars == << max_batches, ingest_pc, inflight, processed_count >>
ingest_obs == << ingested >>
env_vars == << now, cancel >>
engine_vars == << facade, finalized_block, last_tag, tag_result, tag_calls >>
clone_vars == << storage_cells, storage_handles >>
clone_obs == << clone_of, expected_load >>
retry_vars == << attempt, delay, prev_attempt, prev_delay >>
rpc_vars == << rpc_call, rpc_result >>
validator_vars == << validator, candidate, verdict >>
backoff_vars == << retry_wait, failures >>
request_vars == << requested_from, next_parity >>
oracle_vars == << polling_interval, last_poll, poll_result >>
oracle_obs == << l1_queried, last_success, poll_parity >>
late_vars == << backoff_vars, request_vars, oracle_vars, oracle_obs,
               finalized_response >>
call_vars == << clone_vars, clone_obs, retry_vars, rpc_vars, validator_vars,
               late_vars >>
side_vars == << mapping_obs, ingest_obs, env_vars, engine_vars, call_vars >>

vars == << manager_vars, manager_obs, source_vars, source_obs, checkpoint_storage,
           mapping_vars, ingest_vars, finality_pc, side_vars >>

\* ================================================= initial states of the parts

\* HttpBatchSource::new
InitSource ==
    /\ current_checkpoint = None
    /\ next_result = [ tag |-> "NotCalled" ]

InitSourceObs ==
    /\ prev_some = None
    /\ last_some = None

\* MemoryCheckpointStorage::default
InitCheckpointStorage == checkpoint_storage = None

\* MemoryMappingStorage::default
InitMappings ==
    /\ batch_mappings = EmptyMap
    /\ block_mappings = EmptyMap
    /\ epoch_mappings = EmptyMap

InitMappingObs == last_call = None

\* IngestCommand::run before the first loop iteration
InitIngest ==
    /\ max_batches \in 0..MaxBatches
    /\ ingest_pc = "loop"
    /\ inflight = None
    /\ processed_count = 0

InitIngestObs == ingested = << >>

\* The clock reading when the command starts, and no stop requested yet.
InitEnv ==
    /\ now = 0
    /\ cancel = FALSE

\* FinalityCommand::run before the first tick
InitFinality == finality_pc = "tick"

\* No MemoryCheckpointStorage value has been created yet.
InitClones ==
    /\ storage_cells = << >>
    /\ storage_handles = << >>
    /\ clone_of = << >>
    /\ expected_load = << >>

\* retry_delay has not been called yet.
InitRetry ==
    /\ attempt = None
    /\ delay = None
    /\ prev_attempt = None
    /\ prev_delay = None

\* No RPC method has been called yet.
InitRpc ==
    /\ rpc_call = None
    /\ rpc_result = None

\* validate_batch has not been called yet.
InitValidator ==
    /\ validator = None
    /\ candidate = None
    /\ verdict = None

InitBackoff ==
    /\ retry_wait = None
    /\ failures = 0

InitRequest ==
    /\ requested_from = None
    /\ next_parity = FALSE

\* RealFinalityOracle::new with a polling interval of one second, and an API
\* that was not called yet.
InitOracle ==
    /\ polling_interval = 1
    /\ last_poll = 0
    /\ poll_result = None
    /\ l1_queried = FALSE
    /\ last_success = 0
    /\ poll_parity = FALSE
    /\ finalized_response = None

InitLate ==
    /\ InitBackoff
    /\ InitRequest
    /\ InitOracle

InitCalls ==
    /\ InitClones
    /\ InitRetry
    /\ InitRpc
    /\ InitValidator
    /\ InitLate

\* ======================================================= RollbackManager

\* RollbackConfig values a manager is constructed with.
RollbackConfigs ==
    [ required_confirmations : 1..MaxRequired,
      max_rollback_depth : 1..MaxDepth,
      rollback_timeout : 1..MaxTimeout,
      auto_execute : BOOLEAN ]

EventTypes == {"RolledBack", "Finalized", "StatusChanged"}
\* FinalityUpdate, reduced to event_type, tag.batch_id and detected_at.
FinalityUpdates ==
    [ event_type : EventTypes, batch_id : BatchIds, detected_at : 0..MaxTime ]

\* RollbackAction
ExecuteRollback(b) == [ kind |-> "ExecuteRollback", batch_id |-> b ]
PendingRollbackAction(b) == [ kind |-> "PendingRollback", batch_id |-> b ]
Finalized(b) == [ kind |-> "Finalized", batch_id |-> b ]
StatusChanged(b) == [ kind |-> "StatusChanged", batch_id |-> b ]

\* FinalityResult<Vec<RollbackAction>>
Ok(actions) == [ ok |-> TRUE, actions |-> actions ]
Err(kind) == [ ok |-> FALSE, actions |-> << >>, error |-> kind ]

\* The outcome of a handler: the two maps after the call and the return value.
Outcome(pending, history, res) ==
    [ pending |-> pending, history |-> history, result |-> res ]

calculate_affected_blocks(batch_id) ==
    << batch_id * 100, batch_id * 100 + 1, batch_id * 100 + 2 >>

\* pending.confirmations += 1, then compare with required_confirmations.
check_rollback_confirmations(pending, batch_id) ==
    IF batch_id \in DOMAIN pending
    THEN LET bumped == [pending EXCEPT ![batch_id].confirmations = @ + 1]
         IN  [ pending |-> bumped,
               enough |-> bumped[batch_id].confirmations
                              >= bumped[batch_id].required_confirmations ]
    ELSE [ pending |-> pending, enough |-> FALSE ]

\* Mutation of execute_rollback: the pending entry is not removed.
execute_rollback_keeps_pending(pending, history, batch_id) ==
    IF batch_id \notin DOMAIN pending
    THEN Outcome(pending, history, Err("RollbackError"))
    ELSE LET record == [ batch_id |-> batch_id,
                         timestamp |-> pending[batch_id].timestamp,
                         affected_blocks |-> calculate_affected_blocks(batch_id) ]
         IN  Outcome(pending,
                     MapInsert(history, batch_id, record),
                     Ok(<< ExecuteRollback(batch_id) >>))

execute_rollback(pending, history, batch_id) ==
    IF batch_id \notin DOMAIN pending
    THEN Outcome(pending, history, Err("RollbackError"))
    ELSE LET record == [ batch_id |-> batch_id,
                         timestamp |-> pending[batch_id].timestamp,
                         affected_blocks |-> calculate_affected_blocks(batch_id) ]
         IN  Outcome(MapRemove(pending, batch_id),
                     MapInsert(history, batch_id, record),
                     Ok(<< ExecuteRollback(batch_id) >>))

\* Mutation of handle_rollback: the already-processed check is dropped.
handle_rollback_no_history_check(cfg, pending, history, batch_id, detected_at) ==
    LET entry == [ batch_id |-> batch_id, timestamp |-> detected_at,
                   confirmations |-> 0,
                   required_confirmations |-> cfg.required_confirmations ]
        inserted == MapInsert(pending, batch_id, entry)
    IN  IF cfg.auto_execute
        THEN LET chk == check_rollback_confirmations(inserted, batch_id)
             IN  IF chk.enough
                 THEN execute_rollback(chk.pending, history, batch_id)
                 ELSE Outcome(chk.pending, history,
                              Ok(<< PendingRollbackAction(batch_id) >>))
        ELSE Outcome(inserted, history, Ok(<< PendingRollbackAction(batch_id) >>))

\* Mutation of handle_rollback: the auto_execute switch is not consulted.
handle_rollback_always_auto(cfg, pending, history, batch_id, detected_at) ==
    IF batch_id \in DOMAIN history
    THEN Outcome(pending, history, Ok(<< >>))
    ELSE LET entry == [ batch_id |-> batch_id, timestamp |-> detected_at,
                        confirmations |-> 0,
                        required_confirmations |-> cfg.required_confirmations ]
             inserted == MapInsert(pending, batch_id, entry)
             chk == check_rollback_confirmations(inserted, batch_id)
         IN  IF chk.enough
             THEN execute_rollback(chk.pending, history, batch_id)
             ELSE Outcome(chk.pending, history,
                          Ok(<< PendingRollbackAction(batch_id) >>))

handle_rollback(cfg, pending, history, batch_id, detected_at) ==
    IF batch_id \in DOMAIN history
    THEN Outcome(pending, history, Ok(<< >>))
    ELSE LET entry == [ batch_id |-> batch_id, timestamp |-> detected_at,
                        confirmations |-> 0,
                        required_confirmations |-> cfg.required_confirmations ]
             inserted == MapInsert(pending, batch_id, entry)
         IN  IF cfg.auto_execute
             THEN LET chk == check_rollback_confirmations(inserted, batch_id)
                  IN  IF chk.enough
                      THEN execute_rollback(chk.pending, history, batch_id)
                      ELSE Outcome(chk.pending, history,
                                   Ok(<< PendingRollbackAction(batch_id) >>))
             ELSE Outcome(inserted, history,
                          Ok(<< PendingRollbackAction(batch_id) >>))

\* Mutation of handle_finalization: the pending entry is kept.
handle_finalization_keeps_pending(pending, history, batch_id) ==
    Outcome(pending, history, Ok(<< Finalized(batch_id) >>))

handle_finalization(pending, history, batch_id) ==
    Outcome(MapRemove(pending, batch_id), history, Ok(<< Finalized(batch_id) >>))

handle_status_change(pending, history, batch_id) ==
    Outcome(pending, history, Ok(<< StatusChanged(batch_id) >>))

process_finality_update(cfg, pending, history, update) ==
    CASE update.event_type = "RolledBack" ->
             handle_rollback(cfg, pending, history, update.batch_id,
                             update.detected_at)
      [] update.event_type = "Finalized" ->
             handle_finalization(pending, history, update.batch_id)
      [] update.event_type = "StatusChanged" ->
             handle_status_change(pending, history, update.batch_id)

\* RollbackManager::new
InitManager ==
    /\ config \in RollbackConfigs
    /\ rollback_history = EmptyMap
    /\ pending_rollbacks = EmptyMap
    /\ last_update = None
    /\ result = Ok(<< >>)

InitManagerObs ==
    /\ pre_pending = EmptyMap
    /\ pre_history = EmptyMap
    /\ rolled_back_run = [b \in BatchIds |-> 0]
    /\ finalized_seen = {}
    /\ executed = {}

\* RollbackManager::cleanup_old_records at clock reading secs: both maps keep
\* the entries with timestamp > secs - max_age.  The clock counts from the
\* start of the command, so the cutoff can be negative here where the code's
\* cutoff, counted from the Unix epoch, is a large positive number.
cleanup_old_records(pending, history, secs, max_age) ==
    LET cutoff_time == secs - max_age
        retain(m) == [ k \in { x \in DOMAIN m : m[x].timestamp > cutoff_time }
                          |-> m[k] ]
    IN  [ pending |-> retain(pending), history |-> retain(history) ]

\* One call of RollbackManager::cleanup_old_records.
CleanupOldRecords(max_age) ==
    LET out == cleanup_old_records(pending_rollbacks, rollback_history, now,
                                   max_age)
    IN  /\ pending_rollbacks' = out.pending
        /\ rollback_history' = out.history
        /\ UNCHANGED << config, last_update, result >>

\* One call of RollbackManager::process_finality_update; the update was
\* detected no later than now.
ProcessFinalityUpdate(update) ==
    LET out == process_finality_update(config, pending_rollbacks,
                                       rollback_history, update)
    IN  /\ update.detected_at <= now
        /\ pending_rollbacks' = out.pending
        /\ rollback_history' = out.history
        /\ result' = out.result
        /\ last_update' = Some(update)
        /\ UNCHANGED config

\* What an observer records about a cleanup_old_records call.
ObserveCleanup ==
    /\ pre_pending' = pending_rollbacks
    /\ pre_history' = rollback_history
    /\ UNCHANGED << rolled_back_run, finalized_seen, executed >>

\* What an observer of the call records about it.
ObserveUpdate(update) ==
    /\ pre_pending' = pending_rollbacks
    /\ pre_history' = rollback_history
    /\ rolled_back_run' =
          [rolled_back_run EXCEPT ![update.batch_id] =
              CASE update.event_type = "RolledBack" ->
                       IF @ < MaxRequired THEN @ + 1 ELSE @
                [] update.event_type = "Finalized" -> 0
                [] OTHER -> @]
    /\ finalized_seen' =
          IF update.event_type = "Finalized"
          THEN finalized_seen \cup {update.batch_id}
          ELSE finalized_seen
    /\ executed' =
          LET out == process_finality_update(config, pending_rollbacks,
                                             rollback_history, update)
          IN  IF out.result.ok
                  /\ out.result.actions = << ExecuteRollback(update.batch_id) >>
              THEN executed \cup {update.batch_id}
              ELSE executed

\* ======================================================= HttpBatchSource

\* A Batch, reduced to what the pipeline reads: id.number, id.hash and the
\* number of blocks.
Batches == [ number : BatchNumbers, hash : Hashes, nblocks : 0..MaxBlocks ]

\* Checkpoint values a caller can pass in.
Checkpoints == [ last_batch_id : BatchNumbers, last_batch_hash : Hashes ]

\* Checkpoint::from_batch
from_batch(batch) ==
    [ last_batch_id |-> batch.number, last_batch_hash |-> batch.hash ]

\* DatastreamError kinds make_request / fetch_batches can return.
FetchErrors == { "NetworkError", "HttpError", "SerializationError" }

\* What the server answers to GET /api/v1/batches[?from=..]: an error or a
\* JSON array of batches.  The code does not compare the array with the
\* requested from, so every array is a possible answer.
BatchLists ==
    UNION { [1..n -> Batches] : n \in 0..MaxResponseLen }
Responses ==
    { [ tag |-> "Err", error |-> e ] : e \in FetchErrors }
        \cup { [ tag |-> "Ok", batches |-> bs ] : bs \in BatchLists }

\* next() reads the first batch of the answer only: the answers that are an
\* error, the empty list or one batch of one block.
ShortResponses ==
    { [ tag |-> "Err", error |-> e ] : e \in FetchErrors }
        \cup { [ tag |-> "Ok", batches |-> << >> ] }
        \cup { [ tag |-> "Ok",
                 batches |-> << [ number |-> n, hash |-> h, nblocks |-> 1 ] >> ] :
                 n \in BatchNumbers, h \in Hashes }

\* DatastreamResult<Option<Batch>>
NextErr(e) == [ tag |-> "Err", error |-> e ]
NextNone == [ tag |-> "None" ]
NextSome(batch) == [ tag |-> "Some", batch |-> batch ]

\* The from_batch that next() passes to fetch_batches.
next_from_batch(checkpoint) ==
    IF checkpoint = None THEN None
    ELSE Some(checkpoint[1].last_batch_id + 1)

\* Mutation of next: an error of the request clears the checkpoint.
http_next_error_clears_checkpoint(checkpoint, response) ==
    IF response.tag = "Err"
    THEN [ checkpoint |-> None, result |-> NextErr(response.error) ]
    ELSE IF response.batches = << >>
    THEN [ checkpoint |-> checkpoint, result |-> NextNone ]
    ELSE LET batch == Head(response.batches)
         IN  [ checkpoint |-> Some(from_batch(batch)),
               result |-> NextSome(batch) ]

\* HttpBatchSource::next, given the server's answer: the checkpoint after the
\* call and the return value.
http_next(checkpoint, response) ==
    IF response.tag = "Err"
    THEN [ checkpoint |-> checkpoint, result |-> NextErr(response.error) ]
    ELSE IF response.batches = << >>
    THEN [ checkpoint |-> checkpoint, result |-> NextNone ]
    ELSE LET batch == Head(response.batches)
         IN  [ checkpoint |-> Some(from_batch(batch)),
               result |-> NextSome(batch) ]

\* One call of HttpBatchSource::next.
SourceNext(response) ==
    LET out == http_next(current_checkpoint, response)
    IN  /\ current_checkpoint' = out.checkpoint
        /\ next_result' = out.result

\* What an observer of next() records: the latest two successful results.
ObserveNext(response) ==
    LET out == http_next(current_checkpoint, response)
    IN  IF out.result.tag = "Some"
        THEN /\ prev_some' = last_some
             /\ last_some' = Some(out.result.batch)
        ELSE UNCHANGED source_obs

\* One call of HttpBatchSource::next together with the request it sends.
SourceNextRequest(response) ==
    /\ requested_from' = next_from_batch(current_checkpoint)
    /\ next_parity' = ~next_parity
    /\ SourceNext(response)

\* HttpBatchSource::set_checkpoint
SetCheckpoint(checkpoint) ==
    /\ current_checkpoint' = Some(checkpoint)
    /\ UNCHANGED next_result

\* ================================================ MemoryCheckpointStorage

SaveCheckpoint(checkpoint) ==
    checkpoint_storage' = Some(checkpoint)

DeleteCheckpoint ==
    checkpoint_storage' = None

\* MemoryCheckpointStorage::default (derived): a value over a newly allocated
\* cell that holds None.
MemoryCheckpointStorage_default(cells, handles) ==
    [ cells |-> Append(cells, None),
      handles |-> Append(handles, Len(cells) + 1) ]

\* Mutation of MemoryCheckpointStorage_clone: the clone gets a cell of its
\* own holding a copy of the checkpoint.
MemoryCheckpointStorage_clone_deep_copy(cells, handles, h) ==
    [ cells |-> Append(cells, cells[handles[h]]),
      handles |-> Append(handles, Len(cells) + 1) ]

\* Clone for MemoryCheckpointStorage: the new value holds a clone of the Arc,
\* which points to the cell of the value it was cloned from.
MemoryCheckpointStorage_clone(cells, handles, h) ==
    [ cells |-> cells,
      handles |-> Append(handles, handles[h]) ]

\* MemoryCheckpointStorage::save_checkpoint through value h.
save_checkpoint(cells, handles, h, checkpoint) ==
    [cells EXCEPT ![handles[h]] = Some(checkpoint)]

\* MemoryCheckpointStorage::load_checkpoint through value h.
load_checkpoint(cells, handles, h) ==
    cells[handles[h]]

\* MemoryCheckpointStorage::delete_checkpoint through value h.
delete_checkpoint(cells, handles, h) ==
    [cells EXCEPT ![handles[h]] = None]

StorageValues == 1..Len(storage_handles)

\* The values that are clones, direct or not, of the same new value as h.
ClonesOf(h) == { g \in StorageValues : clone_of[g] = clone_of[h] }

NewStorage ==
    /\ Len(storage_handles) < MaxStorages
    /\ LET out == MemoryCheckpointStorage_default(storage_cells, storage_handles)
       IN  /\ storage_cells' = out.cells
           /\ storage_handles' = out.handles
    /\ clone_of' = Append(clone_of, Len(storage_handles) + 1)
    /\ expected_load' = Append(expected_load, None)

CloneStorage(h) ==
    /\ Len(storage_handles) < MaxStorages
    /\ LET out == MemoryCheckpointStorage_clone(storage_cells, storage_handles, h)
       IN  /\ storage_cells' = out.cells
           /\ storage_handles' = out.handles
    /\ clone_of' = Append(clone_of, clone_of[h])
    /\ expected_load' = Append(expected_load, expected_load[h])

SaveCheckpointThrough(h, checkpoint) ==
    /\ storage_cells' =
          save_checkpoint(storage_cells, storage_handles, h, checkpoint)
    /\ expected_load' =
          [ g \in StorageValues |->
              IF g \in ClonesOf(h) THEN Some(checkpoint) ELSE expected_load[g] ]
    /\ UNCHANGED << storage_handles, clone_of >>

DeleteCheckpointThrough(h) ==
    /\ storage_cells' = delete_checkpoint(storage_cells, storage_handles, h)
    /\ expected_load' =
          [ g \in StorageValues |->
              IF g \in ClonesOf(h) THEN None ELSE expected_load[g] ]
    /\ UNCHANGED << storage_handles, clone_of >>

\* ================================================== MemoryMappingStorage

\* Keys and mappings the callers of the storage pass in.
MappingKeys == 0..MaxKey
BlockMappings ==
    [ block_number : MappingKeys, block_hash : {1}, batch_id : MappingKeys,
      batch_index : {0}, epoch_id : {0}, timestamp : {0} ]
BatchMappings ==
    [ batch_id : MappingKeys, batch_hash : {1}, start_block : {0},
      end_block : MappingKeys, block_count : {0}, epoch_id : {0},
      timestamp : {0} ]
EpochMappings ==
    [ epoch_id : MappingKeys, epoch_hash : {1}, start_block : {0},
      end_block : {0}, block_count : {0}, batch_count : MappingKeys,
      timestamp : {0} ]

\* HashMap::get(..).cloned()
MapGet(m, k) == IF k \in DOMAIN m THEN Some(m[k]) ELSE None

\* MemoryMappingStorage::save_block_mapping
save_block_mapping(mappings, mapping) ==
    MapInsert(mappings, mapping.block_number, mapping)

load_block_mapping(mappings, block_number) == MapGet(mappings, block_number)

delete_block_mapping(mappings, block_number) == MapRemove(mappings, block_number)

\* Mutation of save_batch_mapping: the mapping is filed under its end_block.
save_batch_mapping_wrong_key(mappings, mapping) ==
    MapInsert(mappings, mapping.end_block, mapping)

\* MemoryMappingStorage::save_batch_mapping
save_batch_mapping(mappings, mapping) ==
    MapInsert(mappings, mapping.batch_id, mapping)

load_batch_mapping(mappings, batch_id) == MapGet(mappings, batch_id)

delete_batch_mapping(mappings, batch_id) == MapRemove(mappings, batch_id)

save_epoch_mapping(mappings, mapping) ==
    MapInsert(mappings, mapping.epoch_id, mapping)

load_epoch_mapping(mappings, epoch_id) == MapGet(mappings, epoch_id)

delete_epoch_mapping(mappings, epoch_id) == MapRemove(mappings, epoch_id)

\* MappingManager::create_batch_mapping; secs is the reading of
\* SystemTime::now().
create_batch_mapping(batch_id, batch_hash, start_block, end_block, epoch_id, secs) ==
    [ batch_id |-> batch_id,
      batch_hash |-> batch_hash,
      start_block |-> start_block,
      end_block |-> end_block,
      block_count |-> end_block - start_block + 1,
      epoch_id |-> epoch_id,
      timestamp |-> secs ]

\* One call of each save_* / delete_* method on the three stores.
SaveBlockMapping(mapping) ==
    /\ block_mappings' = save_block_mapping(block_mappings, mapping)
    /\ UNCHANGED << batch_mappings, epoch_mappings >>

DeleteBlockMapping(block_number) ==
    /\ block_mappings' = delete_block_mapping(block_mappings, block_number)
    /\ UNCHANGED << batch_mappings, epoch_mappings >>

SaveBatchMapping(mapping) ==
    /\ batch_mappings' = save_batch_mapping(batch_mappings, mapping)
    /\ UNCHANGED << block_mappings, epoch_mappings >>

DeleteBatchMapping(batch_id) ==
    /\ batch_mappings' = delete_batch_mapping(batch_mappings, batch_id)
    /\ UNCHANGED << block_mappings, epoch_mappings >>

SaveEpochMapping(mapping) ==
    /\ epoch_mappings' = save_epoch_mapping(epoch_mappings, mapping)
    /\ UNCHANGED << block_mappings, batch_mappings >>

DeleteEpochMapping(epoch_id) ==
    /\ epoch_mappings' = delete_epoch_mapping(epoch_mappings, epoch_id)
    /\ UNCHANGED << block_mappings, batch_mappings >>

\* What an observer of the storage records about a call: the method, the
\* store, the key and, for a save, the mapping passed in.
ObserveCall(op, store, key, value) ==
    last_call' = Some([ op |-> op, store |-> store, key |-> key,
                        value |-> value ])

\* Number of mappings in the three stores together.
Stored ==
    Cardinality(DOMAIN block_mappings) + Cardinality(DOMAIN batch_mappings)
        + Cardinality(DOMAIN epoch_mappings)

\* The callers add a mapping under a new key only below MaxStored.
CanStore(mappings, key) == key \in DOMAIN mappings \/ Stored < MaxStored

\* ====================================================== IngestCommand::run

\* The BatchMapping the loop builds for a fetched batch; secs is the reading
\* of SystemTime::now() at that moment.
ingest_batch_mapping(batch, secs) ==
    [ batch_id |-> batch.number,
      batch_hash |-> batch.hash,
      start_block |-> 0,
      end_block |-> batch.nblocks,
      block_count |-> batch.nblocks,
      epoch_id |-> 0,
      timestamp |-> secs ]

\* Mutation of the limit test: the loop breaks one batch late.
LimitReached_one_late == max_batches > 0 /\ processed_count > max_batches

LimitReached == max_batches > 0 /\ processed_count >= max_batches

\* Top of the loop: the batch limit is reached, the loop breaks.
IngestLimitReached ==
    /\ ingest_pc = "loop"
    /\ LimitReached
    /\ ingest_pc' = "done"
    /\ UNCHANGED << max_batches, inflight, processed_count >>
    /\ UNCHANGED << source_vars, mapping_vars >>

\* batch_source.next().await and the dispatch on its result.
IngestFetch(response) ==
    /\ ingest_pc = "loop"
    /\ ~LimitReached
    /\ processed_count < MaxBatches
    /\ SourceNext(response)
    /\ LET res == http_next(current_checkpoint, response).result
       IN  CASE res.tag = "Some" ->
                    /\ inflight' = Some(res.batch)
                    /\ ingest_pc' = "commit"
             [] res.tag = "None" ->
                    /\ inflight' = None
                    /\ ingest_pc' = "done"
             [] res.tag = "Err" ->
                    /\ inflight' = None
                    /\ ingest_pc' = "loop"
    /\ UNCHANGED << max_batches, processed_count, mapping_vars >>

\* The Ok(Some(batch)) arm after next() returned: save the batch mapping and
\* count the batch.
IngestCommit ==
    /\ ingest_pc = "commit"
    /\ batch_mappings' =
          save_batch_mapping(batch_mappings,
                             ingest_batch_mapping(inflight[1], now))
    /\ processed_count' = processed_count + 1
    /\ inflight' = None
    /\ ingest_pc' = "loop"
    /\ UNCHANGED << max_batches, block_mappings, epoch_mappings, source_vars >>

\* Seconds of the sleep in the Err arm.
retry_sleep_secs == 5

\* The sleep that follows the dispatch on the result of next(): the Err arm
\* sleeps before the loop calls next() again, the other arms do not.
retry_sleep(res) ==
    IF res.tag = "Err" THEN Some(retry_sleep_secs) ELSE None

\* One turn of the loop from next() to the end of the Err arm's sleep,
\* watched by an observer who counts the failed calls in a row.
IngestFetchAndWait(response) ==
    /\ failures < MaxFailures
    /\ IngestFetch(response)
    /\ LET res == http_next(current_checkpoint, response).result
       IN  /\ retry_wait' = retry_sleep(res)
           /\ failures' = IF res.tag = "Err" THEN failures + 1 ELSE 0

\* What an observer of the loop records when a batch is committed.
ObserveCommit ==
    ingested' = Append(ingested, inflight[1].number)

\* The wall clock moves on by a second.
ClockTick ==
    /\ now < MaxTime
    /\ now' = now + 1
    /\ UNCHANGED cancel

\* A stop of the running command is requested.  Neither loop reads the
\* request.
RaiseCancel ==
    /\ ~cancel
    /\ cancel' = TRUE
    /\ UNCHANGED now

\* ==================================================== FinalityCommand::run

\* interval.tick().await
FinalityTick ==
    /\ finality_pc = "tick"
    /\ finality_pc' = "sleep"

\* tokio::time::sleep(1s).await, back to the top of the loop
FinalitySleep ==
    /\ finality_pc = "sleep"
    /\ finality_pc' = "tick"

\* ========================================================== BatchValidator

\* BatchValidator::default().max_blocks_per_batch
max_blocks_per_batch == 1000

\* IngestResult<()>
ValidOk == [ ok |-> TRUE ]
InvalidBatchData == [ ok |-> FALSE, error |-> "InvalidBatchData" ]

\* BatchValidator::validate_batch on the fields the model's Batch carries:
\* the batch id check (the first one the code makes) and the block count
\* check.  The remaining rules read fields outside the model's Batch
\* (l1_origin, the blocks' hashes, roots and timestamps); they only reject
\* more batches, so a batch rejected here is rejected by the code.
validate_batch(batch) ==
    IF batch.number = 0
    THEN InvalidBatchData
    ELSE IF batch.nblocks > max_blocks_per_batch
    THEN InvalidBatchData
    ELSE ValidOk

\* BatchValidator values: BatchValidator::default() and validators built by
\* BatchValidator::new with a tight block limit or a tight byte limit, each
\* in strict and in non-strict mode.
BatchValidators ==
    [ max_blocks_per_batch : {max_blocks_per_batch},
      max_batch_size_bytes : {10 * 1024 * 1024},
      strict_mode : BOOLEAN ]
    \cup [ max_blocks_per_batch : {1},
           max_batch_size_bytes : {10 * 1024 * 1024},
           strict_mode : BOOLEAN ]
    \cup [ max_blocks_per_batch : {max_blocks_per_batch},
           max_batch_size_bytes : {32 + 32 + 8 + 180},
           strict_mode : BOOLEAN ]

\* BlockInBatch; a hash or root is 0 (the zero hash) or 1 (any other).
FullBlocks ==
    [ batch_index : 0..1, number : 0..MaxBlockNumber, hash : 0..1,
      parent_hash : 0..1, state_root : 0..1, receipt_root : 0..1,
      tx_root : 0..1, timestamp : 0..MaxTimestamp ]

\* The blocks at position index that pass every per-block zero check.
SoundBlocks(index) ==
    [ batch_index : {index}, number : 1..MaxBlockNumber, hash : {1},
      parent_hash : 0..1, state_root : {1}, receipt_root : {1},
      tx_root : {1}, timestamp : 1..MaxTimestamp ]

\* Block lists of the batches handed to validate_batch: none, any single
\* block, or several blocks of SoundBlocks in any order of number and
\* timestamp.
BlockLists ==
    { << >> } \cup { << block >> : block \in FullBlocks }
        \cup UNION { { blocks \in [1..n -> UNION { SoundBlocks(i) : i \in 0..(n - 1) }] :
                          \A i \in 1..n : blocks[i].batch_index = i - 1 } :
                      n \in 2..MaxBlockCount }

\* Batch, with the fields validate_batch reads: id.number, l1_origin, the
\* length of proof_meta.data_proof and the blocks.
FullBatches ==
    [ number : 0..1, l1_origin : 0..1, data_proof_len : 0..1,
      blocks : BlockLists ]

\* Mutation of estimate_batch_size: the 4 bytes of the batch index are left
\* out of a block.
estimate_batch_size_without_batch_index(batch) ==
    32 + 32 + 8 + batch.data_proof_len
        + Len(batch.blocks) * (32 + 32 + 32 + 32 + 32 + 8 + 8)

\* BatchValidator::estimate_batch_size
estimate_batch_size(batch) ==
    32 + 32 + 8 + batch.data_proof_len
        + Len(batch.blocks) * (32 + 32 + 32 + 32 + 32 + 8 + 8 + 4)

\* Mutation of validate_block_in_batch: a zero parent_hash is rejected on
\* every block, block number 1 included.
validate_block_in_batch_no_genesis(block, expected_index) ==
    IF block.batch_index # expected_index THEN InvalidBatchData
    ELSE IF block.number = 0 THEN InvalidBatchData
    ELSE IF block.hash = 0 THEN InvalidBatchData
    ELSE IF block.parent_hash = 0 THEN InvalidBatchData
    ELSE IF block.state_root = 0 THEN InvalidBatchData
    ELSE IF block.receipt_root = 0 THEN InvalidBatchData
    ELSE IF block.tx_root = 0 THEN InvalidBatchData
    ELSE IF block.timestamp = 0 THEN InvalidBatchData
    ELSE ValidOk

\* BatchValidator::validate_block_in_batch
validate_block_in_batch(block, expected_index) ==
    IF block.batch_index # expected_index THEN InvalidBatchData
    ELSE IF block.number = 0 THEN InvalidBatchData
    ELSE IF block.hash = 0 THEN InvalidBatchData
    ELSE IF block.parent_hash = 0 /\ block.number # 1 THEN InvalidBatchData
    ELSE IF block.state_root = 0 THEN InvalidBatchData
    ELSE IF block.receipt_root = 0 THEN InvalidBatchData
    ELSE IF block.tx_root = 0 THEN InvalidBatchData
    ELSE IF block.timestamp = 0 THEN InvalidBatchData
    ELSE ValidOk

\* BatchValidator::validate_block_ordering: every block after the first is
\* compared with the block before it.
validate_block_ordering(v, blocks) ==
    IF blocks = << >>
    THEN ValidOk
    ELSE IF \E i \in 2..Len(blocks) :
                \/ blocks[i].number <= blocks[i - 1].number
                \/ (blocks[i].timestamp < blocks[i - 1].timestamp
                       /\ v.strict_mode)
    THEN InvalidBatchData
    ELSE ValidOk

\* BatchValidator::validate_batch on a Batch with all the fields it reads.
BatchValidator_validate_batch(v, batch) ==
    IF batch.number = 0 THEN InvalidBatchData
    ELSE IF batch.l1_origin = 0 THEN InvalidBatchData
    ELSE IF Len(batch.blocks) > v.max_blocks_per_batch THEN InvalidBatchData
    ELSE IF estimate_batch_size(batch) > v.max_batch_size_bytes
    THEN InvalidBatchData
    ELSE IF \E i \in 1..Len(batch.blocks) :
                ~validate_block_in_batch(batch.blocks[i], i - 1).ok
    THEN InvalidBatchData
    ELSE IF v.strict_mode
    THEN validate_block_ordering(v, batch.blocks)
    ELSE ValidOk

\* One call of validate_batch on the batch at hand.
ValidateBatch ==
    /\ verdict = None
    /\ validator # None
    /\ verdict' = Some(BatchValidator_validate_batch(validator[1], candidate[1]))
    /\ UNCHANGED << validator, candidate >>

\* ============================================================ EngineFacade

FinalityStatuses == { "Pending", "Finalized", "RolledBack" }
\* FinalityTag, reduced to batch_id and status.
FinalityTags == [ batch_id : BatchNumbers, status : FinalityStatuses ]

\* The finality manager / block importer boxed in the facade:
\* EngineFacade::default() or EngineFacade::new_reth(provider).
Facades == { "Default", "Reth" }

\* What provider.block_hash(n) answers: Ok(Some(hash)), Ok(None) or Err.
ProviderAnswers == { "Some", "None", "Err" }
\* What the engine answers to fork_choice_updated; without an engine handle
\* update_fork_choice returns Ok(()).
ForkChoiceAnswers == { "Ok", "Err" }

\* Result<FinalityResult, EngineFacadeError>
FinalityOk(final_block, blocks_affected) ==
    [ ok |-> TRUE, final_block |-> final_block,
      blocks_affected |-> blocks_affected ]
FinalityErr(kind) == [ ok |-> FALSE, error |-> kind ]

\* The outcome of a facade operation: its return value and the engine
\* operations it went through, in order.
EngineOutcome(res, calls) == [ result |-> res, calls |-> calls ]

DefaultFinalityManager_mark_final(block_number) ==
    EngineOutcome(FinalityOk(block_number, 1), << "mark_final" >>)

RethEngineFacade_mark_final(block_number, block_hash, fork_choice) ==
    CASE block_hash = "None" ->
             EngineOutcome(FinalityErr("FinalityMarkingFailed"),
                           << "mark_final" >>)
      [] block_hash = "Err" ->
             EngineOutcome(FinalityErr("DatabaseError"), << "mark_final" >>)
      [] block_hash = "Some" ->
             IF fork_choice = "Err"
             THEN EngineOutcome(FinalityErr("FinalityMarkingFailed"),
                                << "mark_final", "update_fork_choice" >>)
             ELSE EngineOutcome(FinalityOk(block_number, 1),
                                << "mark_final", "update_fork_choice" >>)

\* EngineFacade::mark_final: forwards to the boxed finality manager.
mark_final(impl, block_number, block_hash, fork_choice) ==
    IF impl = "Default"
    THEN DefaultFinalityManager_mark_final(block_number)
    ELSE RethEngineFacade_mark_final(block_number, block_hash, fork_choice)

\* EngineFacade::process_finality_tag; both implementations have the same
\* three arms and differ in mark_final only.
process_finality_tag(impl, tag, block_hash, fork_choice) ==
    CASE tag.status = "Finalized" ->
             mark_final(impl, tag.batch_id, block_hash, fork_choice)
      [] tag.status = "RolledBack" ->
             EngineOutcome(FinalityOk(tag.batch_id, 0), << >>)
      [] tag.status = "Pending" ->
             EngineOutcome(FinalityOk(tag.batch_id, 0), << >>)

\* EngineFacade::get_final_block
get_final_block(impl, reth_finalized_block) ==
    IF impl = "Default" THEN 0 ELSE reth_finalized_block

\* EngineFacade::is_final
is_final(impl, reth_finalized_block, block_number) ==
    IF impl = "Default" THEN FALSE ELSE block_number <= reth_finalized_block

\* EngineFacade::get_head_block; best_block_number is what the provider
\* answers to best_block_number().
get_head_block(impl, best_block_number) ==
    IF impl = "Default" THEN 0 ELSE best_block_number

\* EngineFacade::default() / EngineFacade::new_reth(provider)
InitEngine ==
    /\ facade \in Facades
    /\ finalized_block = 0
    /\ last_tag = None
    /\ tag_result = FinalityOk(0, 0)
    /\ tag_calls = << >>

\* One call of EngineFacade::process_finality_tag.
ProcessFinalityTag(tag, block_hash, fork_choice) ==
    LET out == process_finality_tag(facade, tag, block_hash, fork_choice)
    IN  /\ last_tag' = Some(tag)
        /\ tag_result' = out.result
        /\ tag_calls' = out.calls
        /\ UNCHANGED << facade, finalized_block >>

\* ============================================================= retry_delay

\* One more than the largest value of a 16-bit limb; a u32 is two limbs.
Limb == 65536
\* An attempt number far beyond every exponent a u32 power can take.
LargeAttempt == 2147483647

Attempts == (0..MaxAttempt) \cup {LargeAttempt}

\* Twice a u32, with the carry out of bit 31 recorded as an overflow.
u32_double(x) ==
    LET lo2 == x.lo * 2
        hi2 == x.hi * 2 + (lo2 \div Limb)
    IN  [ hi |-> hi2 % Limb, lo |-> lo2 % Limb,
          overflow |-> x.overflow \/ hi2 >= Limb ]

\* 2_u32.pow(exp)
RECURSIVE u32_pow2(_)
u32_pow2(exp) ==
    IF exp = 0
    THEN [ hi |-> 0, lo |-> 1, overflow |-> FALSE ]
    ELSE u32_double(u32_pow2(exp - 1))

\* u32::min(a, b) on the attempt number
u32_min(a, b) == IF a <= b THEN a ELSE b

\* Duration::from_secs(1)
base_delay == 1
\* Duration::from_secs(60)
max_delay == 60

\* Duration::min(Duration::from_secs(secs) * factor, Duration::from_secs(cap)),
\* in seconds
capped_secs(secs, factor, cap) ==
    IF factor.hi > 0 \/ secs * factor.lo > cap THEN cap ELSE secs * factor.lo

\* Mutation of retry_delay: the delay is not capped at max_delay.
retry_delay_uncapped(attempt_number) ==
    LET factor == u32_pow2(u32_min(attempt_number, 6))
    IN  [ overflow |-> factor.overflow,
          secs |-> base_delay * (factor.hi * Limb + factor.lo) ]

\* retry_delay: the delay in seconds, and whether the u32 power overflowed.
retry_delay(attempt_number) ==
    LET factor == u32_pow2(u32_min(attempt_number, 6))
    IN  [ overflow |-> factor.overflow,
          secs |-> capped_secs(base_delay, factor, max_delay) ]

\* One call of retry_delay.
RetryDelay(attempt_number) ==
    /\ prev_attempt' = attempt
    /\ prev_delay' = delay
    /\ attempt' = Some(attempt_number)
    /\ delay' = Some(retry_delay(attempt_number))

\* =========================================================== CdkRpcApiImpl

\* Width of alloy_primitives::U256.
U256_BITS == 256

\* The characters of the short arguments.  A string is the sequence of its
\* characters.
ArgChars == { "0", "x", "z" }

\* n times the character c
Repeat(c, n) == [ i \in 1..n |-> c ]

\* Arguments at the edge of the U256 range: the largest U256, the same with
\* a leading zero, and 15 * 16^64, each with and without the 0x prefix.
EdgeDigits ==
    { Repeat("f", U256_BITS \div 4),
      << "0" >> \o Repeat("f", U256_BITS \div 4),
      << "f" >> \o Repeat("0", U256_BITS \div 4) }

RpcArgs ==
    UNION { [1..n -> ArgChars] : n \in 0..MaxArgLen }
        \cup EdgeDigits
        \cup { << "0", "x" >> \o digits : digits \in EdgeDigits }

RpcMethods == { "get_batch_by_number", "get_epoch_by_block" }

\* Result<Option<..>, CdkRpcError>
RpcOk(value) == [ ok |-> TRUE, value |-> value ]
RpcErr(kind) == [ ok |-> FALSE, error |-> kind ]

\* The digits of radix 16 that U256::from_str_radix takes.
HexDigits ==
    { "0", "1", "2", "3", "4", "5", "6", "7", "8", "9",
      "a", "b", "c", "d", "e", "f", "A", "B", "C", "D", "E", "F" }

\* A digit string without its leading zeros.
RECURSIVE StripLeadingZeros(_)
StripLeadingZeros(digits) ==
    IF digits # << >> /\ Head(digits) = "0"
    THEN StripLeadingZeros(Tail(digits))
    ELSE digits

\* str::strip_prefix("0x").unwrap_or(hex_str)
strip_prefix_0x(hex_str) ==
    IF Len(hex_str) >= 2 /\ hex_str[1] = "0" /\ hex_str[2] = "x"
    THEN SubSeq(hex_str, 3, Len(hex_str))
    ELSE hex_str

\* U256::from_str_radix(cleaned, 16): the results it can give.  A character
\* that is no digit of radix 16 or a value of 2^256 or more is an error; what
\* the library answers to an empty digit string is not fixed here.
from_str_radix_16(cleaned) ==
    IF cleaned = << >>
    THEN { "Ok", "Err" }
    ELSE IF \E i \in 1..Len(cleaned) : cleaned[i] \notin HexDigits
    THEN { "Err" }
    ELSE IF Len(StripLeadingZeros(cleaned)) * 4 > U256_BITS
    THEN { "Err" }
    ELSE { "Ok" }

\* Mutation of parse_hex_number: the 0x prefix is not stripped.
parse_hex_number_keeps_prefix(hex_str) ==
    { IF parsed = "Ok" THEN RpcOk(None) ELSE RpcErr("InvalidParameter") :
        parsed \in from_str_radix_16(hex_str) }

\* CdkRpcApiImpl::parse_hex_number, followed by what both methods do with
\* its result: the error is returned, a parsed number gives Ok(None).
parse_hex_number(hex_str) ==
    { IF parsed = "Ok" THEN RpcOk(None) ELSE RpcErr("InvalidParameter") :
        parsed \in from_str_radix_16(strip_prefix_0x(hex_str)) }

\* CdkRpcApi::get_batch_by_number
get_batch_by_number(batch_number) == parse_hex_number(batch_number)

\* CdkRpcApi::get_epoch_by_block
get_epoch_by_block(block_number) == parse_hex_number(block_number)

\* One call of get_batch_by_number.
GetBatchByNumber(batch_number) ==
    /\ rpc_call' = Some([ method |-> "get_batch_by_number",
                          arg |-> batch_number ])
    /\ \E res \in get_batch_by_number(batch_number) : rpc_result' = Some(res)

\* One call of get_epoch_by_block.
GetEpochByBlock(block_number) ==
    /\ rpc_call' = Some([ method |-> "get_epoch_by_block",
                          arg |-> block_number ])
    /\ \E res \in get_epoch_by_block(block_number) : rpc_result' = Some(res)

\* ====================================================== RealFinalityOracle

MaxInterval == 2
MaxTags == 2

\* FinalityResult<Vec<FinalityTag>>
PollErr == [ tag |-> "Err" ]
PollOk(tags) == [ tag |-> "Ok", tags |-> tags ]

\* What L1 answers to one event query: an error or the batch ids of the
\* events.  In this source both queries are stand-ins that answer with the
\* empty list; the answers of an L1 node are modelled.
QueryResults ==
    { [ tag |-> "Err" ] }
        \cup { [ tag |-> "Ok", events |-> << >> ] }
        \cup { [ tag |-> "Ok", events |-> << b >> ] : b \in BatchIds }
L1Answers == [ finalized : QueryResults, rolled_back : QueryResults ]

tags_of(events, status) ==
    [ i \in 1..Len(events) |-> [ batch_id |-> events[i], status |-> status ] ]

\* L1ContractClient::get_finalized_batches
get_finalized_batches(answer) ==
    IF answer.finalized.tag = "Err" THEN PollErr
    ELSE IF answer.rolled_back.tag = "Err" THEN PollErr
    ELSE PollOk(tags_of(answer.finalized.events, "Finalized")
                    \o tags_of(answer.rolled_back.events, "RolledBack"))

\* RealFinalityOracle::should_poll at time t
should_poll(last, interval, t) == t - last >= interval

\* Mutation of poll: the poll time is updated before the query.
poll_updates_time_first(last, interval, t, answer, t_after) ==
    IF ~should_poll(last, interval, t)
    THEN [ result |-> PollOk(<< >>), last_poll |-> last, queried |-> FALSE ]
    ELSE [ result |-> get_finalized_batches(answer), last_poll |-> t,
           queried |-> TRUE ]

\* RealFinalityOracle::poll called at time t; the query is answered at time
\* t_after.
poll(last, interval, t, answer, t_after) ==
    IF ~should_poll(last, interval, t)
    THEN [ result |-> PollOk(<< >>), last_poll |-> last, queried |-> FALSE ]
    ELSE LET finality_tags == get_finalized_batches(answer)
         IN  IF finality_tags.tag = "Err"
             THEN [ result |-> PollErr, last_poll |-> last, queried |-> TRUE ]
             ELSE [ result |-> finality_tags, last_poll |-> t_after,
                    queried |-> TRUE ]

\* One call of poll(); a query of L1 takes d seconds.
Poll(answer, d) ==
    LET out == poll(last_poll, polling_interval, now, answer, now + d)
    IN  /\ now + d <= MaxTime
        /\ poll_result' = Some(out.result)
        /\ last_poll' = out.last_poll
        /\ now' = IF out.queried THEN now + d ELSE now
        /\ l1_queried' = out.queried
        /\ last_success' =
              IF out.queried /\ out.result.tag = "Ok" THEN now + d
              ELSE last_success
        /\ poll_parity' = ~poll_parity
        /\ UNCHANGED << polling_interval, cancel >>

\* RealFinalityOracle::set_polling_interval
SetPollingInterval(interval) ==
    /\ polling_interval' = interval
    /\ UNCHANGED << last_poll, poll_result, oracle_obs >>

\* ----------------------------------------- CdkRpcApiImpl::finalized_batch

\* What poll() of the boxed FinalityOracle of the API can return.
RECURSIVE TagLists(_)
TagLists(n) ==
    IF n = 0 THEN { << >> }
    ELSE TagLists(n - 1)
            \cup { Append(tags, tag) : tags \in TagLists(n - 1), tag \in FinalityTags }
DynPollResults == { PollErr } \cup { PollOk(tags) : tags \in TagLists(MaxTags) }

\* format!("{:?}", status)
debug_status(status) ==
    CASE status = "Pending" -> "Pending"
      [] status = "Finalized" -> "Finalized"
      [] status = "RolledBack" -> "RolledBack"

\* CdkRpcApiImpl::finalized_batch, given what poll() returned.
finalized_batch(polled) ==
    IF polled.tag = "Err" THEN [ tag |-> "Err", error |-> "FinalityOracleError" ]
    ELSE IF polled.tags = << >> THEN [ tag |-> "Ok", response |-> None ]
    ELSE LET latest_tag == polled.tags[Len(polled.tags)]
         IN  [ tag |-> "Ok",
               response |-> Some([ batch_id |-> latest_tag.batch_id,
                                   status |-> debug_status(latest_tag.status) ]) ]

\* One call of finalized_batch.
FinalizedBatch(polled) ==
    /\ poll_result' = Some(polled)
    /\ finalized_response' = Some(finalized_batch(polled))

\* ============================================================ specifications

manager_all == << manager_vars, manager_obs >>
source_all == << source_vars, source_obs >>

\* ---- Spec: the two pipelines side by side: the ingestion loop, the finality
\* loop, and finality updates reaching the RollbackManager.
Init ==
    /\ InitManager
    /\ config.max_rollback_depth = MaxDepth
    /\ facade = "Default"
    /\ InitManagerObs
    /\ InitSource
    /\ InitSourceObs
    /\ InitCheckpointStorage
    /\ InitMappings
    /\ InitMappingObs
    /\ InitIngest
    /\ InitIngestObs
    /\ InitEnv
    /\ InitEngine
    /\ InitCalls
    /\ InitFinality

DeliverFinalityUpdate ==
    \E update \in FinalityUpdates :
        /\ ProcessFinalityUpdate(update)
        /\ UNCHANGED << manager_obs, source_all, checkpoint_storage,
                        mapping_vars, ingest_vars, finality_pc, side_vars >>

IngestBreak ==
    /\ IngestLimitReached
    /\ UNCHANGED << manager_all, source_obs, checkpoint_storage, finality_pc,
                    side_vars >>

IngestNext ==
    \E response \in Responses :
        /\ IngestFetch(response)
        /\ UNCHANGED << manager_all, source_obs, checkpoint_storage, finality_pc,
                    side_vars >>

IngestSave ==
    /\ IngestCommit
    /\ UNCHANGED << manager_all, source_obs, checkpoint_storage, finality_pc,
                    side_vars >>

FinalityPoll ==
    /\ FinalityTick
    /\ UNCHANGED << manager_all, source_all, checkpoint_storage, mapping_vars,
                    ingest_vars, side_vars >>

FinalityWait ==
    /\ FinalitySleep
    /\ UNCHANGED << manager_all, source_all, checkpoint_storage, mapping_vars,
                    ingest_vars, side_vars >>

Next ==
    \/ IngestBreak
    \/ IngestNext
    \/ IngestSave
    \/ FinalityPoll
    \/ FinalityWait
    \/ DeliverFinalityUpdate

Spec == Init /\ [][Next]_vars

\* ---- SpecSource: the HttpBatchSource and the MemoryCheckpointStorage called
\* in any order.
InitSourceSpec ==
    /\ InitManager
    /\ config = [ required_confirmations |-> 1, max_rollback_depth |-> MaxDepth,
                  rollback_timeout |-> 1, auto_execute |-> TRUE ]
    /\ InitManagerObs
    /\ InitSource
    /\ InitSourceObs
    /\ InitCheckpointStorage
    /\ InitMappings
    /\ InitMappingObs
    /\ InitIngest
    /\ InitIngestObs
    /\ InitEnv
    /\ InitEngine
    /\ InitCalls
    /\ max_batches = 0
    /\ facade = "Default"
    /\ InitFinality

CallNext ==
    \E response \in Responses :
        /\ SourceNext(response)
        /\ ObserveNext(response)
        /\ UNCHANGED << manager_all, checkpoint_storage, mapping_vars,
                        ingest_vars, finality_pc, side_vars >>

CallSetCheckpoint ==
    \E checkpoint \in Checkpoints :
        /\ SetCheckpoint(checkpoint)
        /\ UNCHANGED << manager_all, source_obs, checkpoint_storage,
                        mapping_vars, ingest_vars, finality_pc, side_vars >>

CallSaveCheckpoint ==
    \E checkpoint \in Checkpoints :
        /\ SaveCheckpoint(checkpoint)
        /\ UNCHANGED << manager_all, source_all, mapping_vars, ingest_vars,
                        finality_pc, side_vars >>

CallDeleteCheckpoint ==
    /\ DeleteCheckpoint
    /\ UNCHANGED << manager_all, source_all, mapping_vars, ingest_vars,
                    finality_pc, side_vars >>

NextSource ==
    \/ CallNext
    \/ CallSetCheckpoint
    \/ CallSaveCheckpoint
    \/ CallDeleteCheckpoint

SpecSource == InitSourceSpec /\ [][NextSource]_vars

\* ---- SpecRollback: the RollbackManager driven by an arbitrary stream of
\* finality updates.
InitRollback ==
    /\ InitManager
    /\ InitManagerObs
    /\ InitSource
    /\ InitSourceObs
    /\ InitCheckpointStorage
    /\ InitMappings
    /\ InitMappingObs
    /\ InitIngest
    /\ InitIngestObs
    /\ InitEnv
    /\ InitEngine
    /\ InitCalls
    /\ max_batches = 0
    /\ facade = "Default"
    /\ InitFinality

CallProcessFinalityUpdate ==
    \E update \in FinalityUpdates :
        /\ ProcessFinalityUpdate(update)
        /\ ObserveUpdate(update)
        /\ UNCHANGED << source_all, checkpoint_storage, mapping_vars,
                        ingest_vars, finality_pc, side_vars >>

NextRollback == CallProcessFinalityUpdate

SpecRollback == InitRollback /\ [][NextRollback]_vars

\* ---- SpecCleanup: the RollbackManager driven by finality updates and
\* cleanup_old_records calls while the clock runs.
InitCleanup ==
    /\ InitRollback
    /\ config.max_rollback_depth = MaxDepth

CleanupUpdate ==
    \E update \in FinalityUpdates :
        /\ ProcessFinalityUpdate(update)
        /\ ObserveUpdate(update)
        /\ UNCHANGED << source_all, checkpoint_storage, mapping_vars,
                        ingest_vars, finality_pc, side_vars >>

CleanupCall ==
    \E max_age \in 0..MaxTime :
        /\ CleanupOldRecords(max_age)
        /\ ObserveCleanup
        /\ UNCHANGED << source_all, checkpoint_storage, mapping_vars,
                        ingest_vars, finality_pc, side_vars >>

CleanupClock ==
    /\ ClockTick
    /\ UNCHANGED << manager_all, source_all, checkpoint_storage, mapping_vars,
                    mapping_obs, ingest_vars, ingest_obs, finality_pc,
                    engine_vars, call_vars >>

NextCleanup ==
    \/ CleanupUpdate
    \/ CleanupCall
    \/ CleanupClock

SpecCleanup == InitCleanup /\ [][NextCleanup]_vars

\* ---- SpecCheckpoint: MemoryCheckpointStorage values created, cloned and
\* called in any order.
checkpoint_rest ==
    << manager_all, source_all, checkpoint_storage, mapping_vars, mapping_obs,
       ingest_vars, ingest_obs, finality_pc, env_vars, engine_vars,
       retry_vars, rpc_vars, validator_vars, late_vars >>

InitCheckpointSpec ==
    /\ InitManager
    /\ config = [ required_confirmations |-> 1, max_rollback_depth |-> MaxDepth,
                  rollback_timeout |-> 1, auto_execute |-> TRUE ]
    /\ InitManagerObs
    /\ InitSource
    /\ InitSourceObs
    /\ InitCheckpointStorage
    /\ InitMappings
    /\ InitMappingObs
    /\ InitIngest
    /\ max_batches = 0
    /\ InitIngestObs
    /\ InitEnv
    /\ InitEngine
    /\ facade = "Default"
    /\ InitCalls
    /\ InitFinality

CallDefault ==
    /\ NewStorage
    /\ UNCHANGED checkpoint_rest

CallClone ==
    \E h \in StorageValues :
        /\ CloneStorage(h)
        /\ UNCHANGED checkpoint_rest

CallSaveThrough ==
    \E h \in StorageValues, checkpoint \in Checkpoints :
        /\ SaveCheckpointThrough(h, checkpoint)
        /\ UNCHANGED checkpoint_rest

CallDeleteThrough ==
    \E h \in StorageValues :
        /\ DeleteCheckpointThrough(h)
        /\ UNCHANGED checkpoint_rest

NextCheckpoint ==
    \/ CallDefault
    \/ CallClone
    \/ CallSaveThrough
    \/ CallDeleteThrough

SpecCheckpoint == InitCheckpointSpec /\ [][NextCheckpoint]_vars

\* ---- SpecRetry: retry_delay called with any attempt numbers.
CallRetryDelay ==
    \E attempt_number \in Attempts :
        /\ RetryDelay(attempt_number)
        /\ UNCHANGED << manager_all, source_all, checkpoint_storage,
                        mapping_vars, mapping_obs, ingest_vars, ingest_obs,
                        finality_pc, env_vars, engine_vars, clone_vars,
                        clone_obs, rpc_vars, validator_vars, late_vars >>

NextRetry == CallRetryDelay

SpecRetry == InitCheckpointSpec /\ [][NextRetry]_vars

\* ---- SpecValidator: validate_batch applied to a batch by a validator, both
\* drawn from the values above.
InitValidatorSpec ==
    /\ InitManager
    /\ config = [ required_confirmations |-> 1, max_rollback_depth |-> MaxDepth,
                  rollback_timeout |-> 1, auto_execute |-> TRUE ]
    /\ InitManagerObs
    /\ InitSource
    /\ InitSourceObs
    /\ InitCheckpointStorage
    /\ InitMappings
    /\ InitMappingObs
    /\ InitIngest
    /\ max_batches = 0
    /\ InitIngestObs
    /\ InitEnv
    /\ InitEngine
    /\ facade = "Default"
    /\ InitClones
    /\ InitRetry
    /\ InitRpc
    /\ InitLate
    /\ validator \in { Some(v) : v \in BatchValidators }
    /\ candidate \in { Some(batch) : batch \in FullBatches }
    /\ verdict = None
    /\ InitFinality

CallValidateBatch ==
    /\ ValidateBatch
    /\ UNCHANGED << manager_all, source_all, checkpoint_storage, mapping_vars,
                    mapping_obs, ingest_vars, ingest_obs, finality_pc,
                    env_vars, engine_vars, clone_vars, clone_obs, retry_vars,
                    rpc_vars, late_vars >>

NextValidator == CallValidateBatch

SpecValidator == InitValidatorSpec /\ [][NextValidator]_vars

\* ---- SpecRpc: the two RPC methods called with any arguments while the
\* batch source behind the API is given checkpoints.
rpc_rest ==
    << manager_all, checkpoint_storage, mapping_vars, mapping_obs,
       ingest_vars, ingest_obs, finality_pc, env_vars, engine_vars,
       clone_vars, clone_obs, retry_vars, validator_vars, late_vars >>

CallGetBatchByNumber ==
    \E batch_number \in RpcArgs :
        /\ GetBatchByNumber(batch_number)
        /\ UNCHANGED << source_all, rpc_rest >>

CallGetEpochByBlock ==
    \E block_number \in RpcArgs :
        /\ GetEpochByBlock(block_number)
        /\ UNCHANGED << source_all, rpc_rest >>

RpcSetCheckpoint ==
    \E checkpoint \in Checkpoints :
        /\ SetCheckpoint(checkpoint)
        /\ UNCHANGED << source_obs, rpc_vars, rpc_rest >>

NextRpc ==
    \/ CallGetBatchByNumber
    \/ CallGetEpochByBlock
    \/ RpcSetCheckpoint

SpecRpc == InitCheckpointSpec /\ [][NextRpc]_vars

\* ---- SpecMapping: the MemoryMappingStorage called in any order.
InitMappingSpec ==
    /\ InitManager
    /\ config = [ required_confirmations |-> 1, max_rollback_depth |-> MaxDepth,
                  rollback_timeout |-> 1, auto_execute |-> TRUE ]
    /\ InitManagerObs
    /\ InitSource
    /\ InitSourceObs
    /\ InitCheckpointStorage
    /\ InitMappings
    /\ InitMappingObs
    /\ InitIngest
    /\ max_batches = 0
    /\ InitIngestObs
    /\ InitEnv
    /\ InitEngine
    /\ InitCalls
    /\ facade = "Default"
    /\ InitFinality

storage_rest ==
    << manager_all, source_all, checkpoint_storage, ingest_vars, ingest_obs,
       finality_pc, env_vars, engine_vars, call_vars >>

CallSaveBlockMapping ==
    \E mapping \in BlockMappings :
        /\ CanStore(block_mappings, mapping.block_number)
        /\ SaveBlockMapping(mapping)
        /\ ObserveCall("save", "block", mapping.block_number, Some(mapping))
        /\ UNCHANGED storage_rest

CallDeleteBlockMapping ==
    \E block_number \in MappingKeys :
        /\ DeleteBlockMapping(block_number)
        /\ ObserveCall("delete", "block", block_number, None)
        /\ UNCHANGED storage_rest

CallSaveBatchMapping ==
    \E mapping \in BatchMappings :
        /\ CanStore(batch_mappings, mapping.batch_id)
        /\ SaveBatchMapping(mapping)
        /\ ObserveCall("save", "batch", mapping.batch_id, Some(mapping))
        /\ UNCHANGED storage_rest

CallDeleteBatchMapping ==
    \E batch_id \in MappingKeys :
        /\ DeleteBatchMapping(batch_id)
        /\ ObserveCall("delete", "batch", batch_id, None)
        /\ UNCHANGED storage_rest

CallSaveEpochMapping ==
    \E mapping \in EpochMappings :
        /\ CanStore(epoch_mappings, mapping.epoch_id)
        /\ SaveEpochMapping(mapping)
        /\ ObserveCall("save", "epoch", mapping.epoch_id, Some(mapping))
        /\ UNCHANGED storage_rest

CallDeleteEpochMapping ==
    \E epoch_id \in MappingKeys :
        /\ DeleteEpochMapping(epoch_id)
        /\ ObserveCall("delete", "epoch", epoch_id, None)
        /\ UNCHANGED storage_rest

NextMapping ==
    \/ CallSaveBlockMapping
    \/ CallDeleteBlockMapping
    \/ CallSaveBatchMapping
    \/ CallDeleteBatchMapping
    \/ CallSaveEpochMapping
    \/ CallDeleteEpochMapping

SpecMapping == InitMappingSpec /\ [][NextMapping]_vars

\* ---- SpecIngest: the ingestion loop alone, with the wall clock and an
\* observer of the committed batches.
InitIngestSpec ==
    /\ InitManager
    /\ config = [ required_confirmations |-> 1, max_rollback_depth |-> MaxDepth,
                  rollback_timeout |-> 1, auto_execute |-> TRUE ]
    /\ InitManagerObs
    /\ InitSource
    /\ InitSourceObs
    /\ InitCheckpointStorage
    /\ InitMappings
    /\ InitMappingObs
    /\ InitIngest
    /\ InitIngestObs
    /\ InitEnv
    /\ InitEngine
    /\ InitCalls
    /\ facade = "Default"
    /\ InitFinality

LoopBreak ==
    /\ IngestLimitReached
    /\ UNCHANGED << manager_all, source_obs, checkpoint_storage, finality_pc,
                    side_vars >>

LoopNext ==
    \E response \in Responses :
        /\ IngestFetch(response)
        /\ UNCHANGED << manager_all, source_obs, checkpoint_storage,
                        finality_pc, side_vars >>

LoopSave ==
    /\ IngestCommit
    /\ ObserveCommit
    /\ UNCHANGED << manager_all, source_obs, checkpoint_storage, finality_pc,
                    mapping_obs, env_vars, engine_vars, call_vars >>

LoopClock ==
    /\ ClockTick
    /\ UNCHANGED << manager_all, source_all, checkpoint_storage, mapping_vars,
                    mapping_obs, ingest_vars, ingest_obs, finality_pc,
                    engine_vars, call_vars >>

NextIngest ==
    \/ LoopBreak
    \/ LoopNext
    \/ LoopSave
    \/ LoopClock

SpecIngest == InitIngestSpec /\ [][NextIngest]_vars

\* ---- HttpBatchSource: next() and set_checkpoint called in any order
RequestNext ==
    \E response \in ShortResponses :
        /\ SourceNextRequest(response)
        /\ UNCHANGED << manager_all, source_obs, checkpoint_storage,
                        mapping_vars, ingest_vars, finality_pc, mapping_obs,
                        ingest_obs, env_vars, engine_vars, clone_vars,
                        clone_obs, retry_vars, rpc_vars, validator_vars,
                        backoff_vars, oracle_vars, oracle_obs,
                        finalized_response >>

GiveCheckpoint ==
    \E checkpoint \in Checkpoints :
        /\ SetCheckpoint(checkpoint)
        /\ UNCHANGED << manager_all, source_obs, checkpoint_storage,
                        mapping_vars, ingest_vars, finality_pc, side_vars >>

NextRequest ==
    \/ RequestNext
    \/ GiveCheckpoint

SpecRequest == InitSourceSpec /\ [][NextRequest]_vars

\* ---- RealFinalityOracle: poll and set_polling_interval called at any time
oracle_base ==
    << manager_all, source_all, checkpoint_storage, mapping_vars, mapping_obs,
       ingest_vars, ingest_obs, finality_pc, engine_vars, clone_vars,
       clone_obs, retry_vars, rpc_vars, validator_vars, backoff_vars,
       request_vars >>
oracle_rest == << oracle_base, finalized_response >>

CallPoll ==
    \E answer \in L1Answers, d \in 0..1 :
        /\ Poll(answer, d)
        /\ UNCHANGED oracle_rest

CallSetPollingInterval ==
    \E interval \in 0..MaxInterval :
        /\ SetPollingInterval(interval)
        /\ UNCHANGED << oracle_rest, env_vars >>

OracleClock ==
    /\ ClockTick
    /\ UNCHANGED << oracle_rest, oracle_vars, oracle_obs >>

NextOracle ==
    \/ CallPoll
    \/ CallSetPollingInterval
    \/ OracleClock

SpecOracle == InitIngestSpec /\ [][NextOracle]_vars

\* ---- the finalized_batch endpoint over a boxed FinalityOracle
CallFinalizedBatch ==
    \E polled \in DynPollResults :
        /\ FinalizedBatch(polled)
        /\ UNCHANGED << oracle_base, env_vars, polling_interval, last_poll,
                        oracle_obs >>

NextFinalizedBatch == CallFinalizedBatch

SpecFinalizedBatch == InitIngestSpec /\ [][NextFinalizedBatch]_vars

\* ---- the ingestion loop with a batch limit
LimitedNext ==
    \E response \in ShortResponses :
        /\ IngestFetch(response)
        /\ UNCHANGED << manager_all, source_obs, checkpoint_storage,
                        finality_pc, side_vars >>

NextLimitedRun ==
    \/ LoopBreak
    \/ LimitedNext
    \/ LoopSave

SpecLimitedRun == InitIngestSpec /\ [][NextLimitedRun]_vars

\* ---- the ingestion loop and the waits after failed calls of next()
BackoffNext ==
    \E response \in ShortResponses :
        /\ IngestFetchAndWait(response)
        /\ UNCHANGED << manager_all, source_obs, checkpoint_storage,
                        finality_pc, mapping_obs, ingest_obs, env_vars,
                        engine_vars, clone_vars, clone_obs, retry_vars,
                        rpc_vars, validator_vars, request_vars, oracle_vars,
                        oracle_obs, finalized_response >>

NextBackoff ==
    \/ LoopBreak
    \/ BackoffNext
    \/ LoopSave

SpecBackoff == InitIngestSpec /\ [][NextBackoff]_vars

\* The tokio runtime keeps polling the task of the command: a pending
\* next(), save or sleep completes and the loop goes on to its next step.
SpecLimitedRunFair ==
    /\ SpecLimitedRun
    /\ WF_vars(LoopBreak)
    /\ WF_vars(LimitedNext)
    /\ WF_vars(LoopSave)

\* ---- SpecEngine: the ingestion loop, and finality tags handed to the
\* EngineFacade.
InitEngineSpec ==
    /\ InitManager
    /\ config = [ required_confirmations |-> 1, max_rollback_depth |-> MaxDepth,
                  rollback_timeout |-> 1, auto_execute |-> TRUE ]
    /\ InitManagerObs
    /\ InitSource
    /\ InitSourceObs
    /\ InitCheckpointStorage
    /\ InitMappings
    /\ InitMappingObs
    /\ InitIngest
    /\ InitIngestObs
    /\ InitEnv
    /\ InitEngine
    /\ InitCalls
    /\ InitFinality

CallProcessFinalityTag ==
    \E tag \in FinalityTags, block_hash \in ProviderAnswers,
       fork_choice \in ForkChoiceAnswers :
        /\ ProcessFinalityTag(tag, block_hash, fork_choice)
        /\ UNCHANGED << manager_all, source_all, checkpoint_storage,
                        mapping_vars, mapping_obs, ingest_vars, ingest_obs,
                        finality_pc, env_vars, call_vars >>

NextEngine ==
    \/ LoopBreak
    \/ LoopNext
    \/ LoopSave
    \/ CallProcessFinalityTag

SpecEngine == InitEngineSpec /\ [][NextEngine]_vars

\* ---- SpecCancel: the ingestion loop and the finality loop while a stop is
\* requested at some moment.
InitCancel == InitIngestSpec

StopRequested ==
    /\ RaiseCancel
    /\ UNCHANGED << manager_all, source_all, checkpoint_storage, mapping_vars,
                    mapping_obs, ingest_vars, ingest_obs, finality_pc,
                    engine_vars, call_vars >>

NextCancel ==
    \/ LoopBreak
    \/ LoopNext
    \/ LoopSave
    \/ FinalityPoll
    \/ FinalityWait
    \/ StopRequested

SpecCancel == InitCancel /\ [][NextCancel]_vars

\* The tokio runtime keeps polling both tasks: a pending next(), commit,
\* tick or sleep completes and the loop goes on to its next step.
SpecCancelFair ==
    /\ SpecCancel
    /\ WF_vars(LoopBreak)
    /\ WF_vars(LoopNext)
    /\ WF_vars(LoopSave)
    /\ WF_vars(FinalityPoll)
    /\ WF_vars(FinalityWait)

\* ------------------------------------------------ claims on the RollbackManager

LastIs(event_type, b) ==
    /\ last_update # None
    /\ last_update[1].event_type = event_type
    /\ last_update[1].batch_id = b

Emitted(kind, b) ==
    \E i \in 1..Len(result.actions) :
        result.actions[i] = [ kind |-> kind, batch_id |-> b ]

\* C1: with auto_execute and required_confirmations = N, once RolledBack has
\* been received for a batch N times in a row with no Finalized for it in
\* between, the batch is Executed: it is in the rollback history and no
\* longer pending.
C1_ExecutedAfterNConfirmations ==
    \A b \in BatchIds :
        (config.auto_execute
            /\ rolled_back_run[b] >= config.required_confirmations)
        => (b \in DOMAIN rollback_history /\ b \notin DOMAIN pending_rollbacks)

\* C2: a RolledBack event for a batch whose Finalized event was processed
\* earlier is ignored: no pending entry, nothing added to the history,
\* neither PendingRollback nor ExecuteRollback emitted.
C2_RolledBackAfterFinalizedIgnored ==
    \A b \in BatchIds :
        (LastIs("RolledBack", b) /\ b \in finalized_seen)
        => /\ b \notin DOMAIN pending_rollbacks
           /\ rollback_history = pre_history
           /\ ~Emitted("PendingRollback", b)
           /\ ~Emitted("ExecuteRollback", b)

\* C3: a Finalized event for a batch that has a pending rollback removes the
\* pending entry, returns exactly [Finalized(batch_id)] (so no
\* ExecuteRollback) and leaves the rollback history unchanged.
C3_FinalizedSupersedesPending ==
    \A b \in BatchIds :
        (LastIs("Finalized", b) /\ b \in DOMAIN pre_pending)
        => /\ b \notin DOMAIN pending_rollbacks
           /\ pending_rollbacks = MapRemove(pre_pending, b)
           /\ result = Ok(<< Finalized(b) >>)
           /\ rollback_history = pre_history

C3_Witness ==
    \E b \in BatchIds :
        /\ LastIs("Finalized", b)
        /\ b \in DOMAIN pre_pending
        /\ pre_pending[b].confirmations = 1
        /\ result = Ok(<< Finalized(b) >>)

\* C4: a RolledBack event for a batch that is already in the rollback
\* history returns an empty action list and changes neither the history nor
\* the pending set.
C4_ExecutedRollbackIdempotent ==
    \A b \in BatchIds :
        (LastIs("RolledBack", b) /\ b \in DOMAIN pre_history)
        => /\ result = Ok(<< >>)
           /\ rollback_history = pre_history
           /\ pending_rollbacks = pre_pending

C4_Witness ==
    \E b \in BatchIds :
        /\ LastIs("RolledBack", b)
        /\ b \in DOMAIN pre_history
        /\ b \in DOMAIN rollback_history
        /\ result = Ok(<< >>)

\* C5: a rollback whose affected blocks outnumber config.max_rollback_depth
\* is refused: no ExecuteRollback is emitted, the batch is not recorded as
\* Executed, and the call returns a RollbackError.
C5_DepthLimitRefused ==
    \A b \in BatchIds :
        Len(calculate_affected_blocks(b)) > config.max_rollback_depth
        => /\ b \notin DOMAIN rollback_history
           /\ ~Emitted("ExecuteRollback", b)

\* C26: while a batch stays pending, its entry has confirmations = 0 and
\* required_confirmations = config.required_confirmations right after the
\* first RolledBack observation, and every later RolledBack observation
\* raises confirmations by exactly one.
C26_ConfirmationsCountObservations ==
    \A b \in BatchIds :
        (LastIs("RolledBack", b) /\ b \in DOMAIN pending_rollbacks)
        => /\ pending_rollbacks[b].required_confirmations
                  = config.required_confirmations
           /\ pending_rollbacks[b].confirmations
                  = IF b \in DOMAIN pre_pending
                    THEN pre_pending[b].confirmations + 1
                    ELSE 0

\* C27: once ExecuteRollback(b) has been emitted, no later call emits
\* Finalized(b).
C27_NoFinalizedAfterExecuted ==
    \A b \in BatchIds : b \in executed => ~Emitted("Finalized", b)

\* C28: with auto_execute = false a RolledBack event returns exactly
\* [PendingRollback(batch_id)], ExecuteRollback is never emitted and the
\* rollback history stays empty, however often the event is observed.
C28_ManualModeOnlyPending ==
    ~config.auto_execute
    => /\ rollback_history = EmptyMap
       /\ \A b \in BatchIds :
             /\ ~Emitted("ExecuteRollback", b)
             /\ LastIs("RolledBack", b)
                => result = Ok(<< PendingRollbackAction(b) >>)

C28_Witness ==
    /\ ~config.auto_execute
    /\ \E b \in BatchIds :
          /\ LastIs("RolledBack", b)
          /\ rolled_back_run[b] >= 2
          /\ rolled_back_run[b] >= config.required_confirmations
          /\ b \in DOMAIN pending_rollbacks
          /\ result = Ok(<< PendingRollbackAction(b) >>)

\* C31: in every reachable state of the RollbackManager no batch_id is in
\* both pending_rollbacks and rollback_history, and every entry of either
\* map is stored under the key equal to its batch_id field.
C31_PendingAndHistoryDisjoint ==
    /\ DOMAIN pending_rollbacks \cap DOMAIN rollback_history = {}
    /\ \A b \in DOMAIN pending_rollbacks : pending_rollbacks[b].batch_id = b
    /\ \A b \in DOMAIN rollback_history : rollback_history[b].batch_id = b

C31_Witness ==
    \E b \in BatchIds :
        /\ LastIs("RolledBack", b)
        /\ b \notin DOMAIN pre_history
        /\ b \in DOMAIN rollback_history
        /\ rollback_history[b].batch_id = b
        /\ b \notin DOMAIN pending_rollbacks

\* C29: a call of process_finality_update leaves no pending entry that was
\* detected more than config.rollback_timeout ago, and keeps the younger
\* entries of the batches the update is not about.
C29_OldPendingCollected ==
    [][\A update \in FinalityUpdates :
          (ProcessFinalityUpdate(update) /\ now' = now)
          => /\ \A b \in DOMAIN pending_rollbacks' :
                    now' - pending_rollbacks'[b].timestamp
                        <= config.rollback_timeout
             /\ \A b \in DOMAIN pending_rollbacks :
                    (b # update.batch_id
                        /\ now - pending_rollbacks[b].timestamp
                               <= config.rollback_timeout)
                    => b \in DOMAIN pending_rollbacks']_vars

\* C30: over any sequence of process_finality_update and
\* cleanup_old_records calls, ExecuteRollback(b) is emitted at most once for
\* each batch b: a batch enters the rollback history only if no
\* ExecuteRollback was emitted for it before.
C30_ExecuteAtMostOnce ==
    [][\A b \in BatchIds :
          (b \notin DOMAIN rollback_history /\ b \in DOMAIN rollback_history')
          => b \notin executed]_vars

\* C21: after save_checkpoint(c) through a MemoryCheckpointStorage value,
\* load_checkpoint() through that value and through every clone of it
\* returns Some(c) until the next save or delete; after delete_checkpoint()
\* it returns None.
C21_LoadReturnsLastSaved ==
    \A h \in StorageValues :
        load_checkpoint(storage_cells, storage_handles, h) = expected_load[h]

C21_Witness ==
    \E h, g, k \in StorageValues :
        /\ h < g
        /\ g \in ClonesOf(h)
        /\ k \notin ClonesOf(h)
        /\ expected_load[h] # None
        /\ load_checkpoint(storage_cells, storage_handles, g) = expected_load[h]
        /\ load_checkpoint(storage_cells, storage_handles, k) = None
        /\ expected_load[k] = None

\* C24: retry_delay(k) = min(60 s, 2^min(k,6) s) for every attempt number
\* k: it is 1 s at k = 0, never above 60 s, 60 s for every k >= 6,
\* non-decreasing in k, and computed without overflow.
C24_RetryDelayIsCappedBackoff ==
    attempt # None
    => LET k == attempt[1]
           d == delay[1]
           exponent == IF k < 6 THEN k ELSE 6
           expected == IF 2^exponent < 60 THEN 2^exponent ELSE 60
       IN  /\ ~d.overflow
           /\ d.secs = expected
           /\ k = 0 => d.secs = 1
           /\ d.secs <= 60
           /\ k >= 6 => d.secs = 60
           /\ (prev_attempt # None /\ prev_attempt[1] <= k)
                 => prev_delay[1].secs <= d.secs

C24_Witness ==
    /\ prev_attempt = Some(5)
    /\ prev_delay = Some([ overflow |-> FALSE, secs |-> 32 ])
    /\ attempt = Some(LargeAttempt)
    /\ delay = Some([ overflow |-> FALSE, secs |-> 60 ])

\* C22: validate_batch rejects every batch whose id.number or l1_origin is
\* 0 and every batch with a block that has a zero parent_hash and a number
\* other than 1; it accepts a batch that meets every rule and contains a
\* block with number = 1 and parent_hash = 0.
C22_HeaderAndGenesisRules ==
    verdict # None
    => LET v == validator[1]
           batch == candidate[1]
           blocks == batch.blocks
           n == Len(blocks)
           MeetsEveryRule ==
               /\ batch.number # 0
               /\ batch.l1_origin # 0
               /\ n <= v.max_blocks_per_batch
               /\ estimate_batch_size(batch) <= v.max_batch_size_bytes
               /\ \A i \in 1..n :
                     /\ blocks[i].batch_index = i - 1
                     /\ blocks[i].number # 0
                     /\ blocks[i].hash # 0
                     /\ blocks[i].state_root # 0
                     /\ blocks[i].receipt_root # 0
                     /\ blocks[i].tx_root # 0
                     /\ blocks[i].timestamp # 0
                     /\ blocks[i].parent_hash = 0 => blocks[i].number = 1
               /\ \A i \in 2..n :
                     /\ blocks[i].number > blocks[i - 1].number
                     /\ blocks[i].timestamp >= blocks[i - 1].timestamp
       IN  /\ (batch.number = 0 \/ batch.l1_origin = 0) => ~verdict[1].ok
           /\ (\E i \in 1..n :
                  blocks[i].parent_hash = 0 /\ blocks[i].number # 1)
                 => ~verdict[1].ok
           /\ (MeetsEveryRule
                  /\ \E i \in 1..n :
                        blocks[i].parent_hash = 0 /\ blocks[i].number = 1)
                 => verdict[1].ok

C22_Witness ==
    /\ verdict = Some(ValidOk)
    /\ Len(candidate[1].blocks) = 2
    /\ candidate[1].blocks[1].number = 1
    /\ candidate[1].blocks[1].parent_hash = 0
    /\ candidate[1].blocks[2].parent_hash # 0

\* C23: in strict and in non-strict mode validate_batch rejects every batch
\* whose block numbers do not strictly increase from each block to the
\* next; a timestamp lower than the previous block's is rejected in strict
\* mode and accepted in non-strict mode.
C23_OrderingRules ==
    verdict # None
    => LET v == validator[1]
           batch == candidate[1]
           blocks == batch.blocks
           n == Len(blocks)
           MeetsEveryOtherRule ==
               /\ batch.number # 0
               /\ batch.l1_origin # 0
               /\ n <= v.max_blocks_per_batch
               /\ estimate_batch_size(batch) <= v.max_batch_size_bytes
               /\ \A i \in 1..n :
                     /\ blocks[i].batch_index = i - 1
                     /\ blocks[i].number # 0
                     /\ blocks[i].hash # 0
                     /\ blocks[i].state_root # 0
                     /\ blocks[i].receipt_root # 0
                     /\ blocks[i].tx_root # 0
                     /\ blocks[i].timestamp # 0
                     /\ blocks[i].parent_hash = 0 => blocks[i].number = 1
               /\ \A i \in 2..n : blocks[i].number > blocks[i - 1].number
       IN  /\ (\E i \in 2..n : blocks[i].number <= blocks[i - 1].number)
                 => ~verdict[1].ok
           /\ (v.strict_mode
                  /\ \E i \in 2..n :
                        blocks[i].timestamp < blocks[i - 1].timestamp)
                 => ~verdict[1].ok
           /\ (~v.strict_mode /\ MeetsEveryOtherRule
                  /\ \E i \in 2..n :
                        blocks[i].timestamp < blocks[i - 1].timestamp)
                 => verdict[1].ok

\* A batch that passes every check of validate_batch other than the size
\* check, in strict and in non-strict mode.
PassesOtherChecks(v, batch) ==
    LET blocks == batch.blocks
        n == Len(blocks)
    IN  /\ batch.number # 0
        /\ batch.l1_origin # 0
        /\ n <= v.max_blocks_per_batch
        /\ \A i \in 1..n :
              /\ blocks[i].batch_index = i - 1
              /\ blocks[i].number # 0
              /\ blocks[i].hash # 0
              /\ blocks[i].state_root # 0
              /\ blocks[i].receipt_root # 0
              /\ blocks[i].tx_root # 0
              /\ blocks[i].timestamp # 0
              /\ blocks[i].parent_hash = 0 => blocks[i].number = 1
        /\ \A i \in 2..n :
              /\ blocks[i].number > blocks[i - 1].number
              /\ blocks[i].timestamp >= blocks[i - 1].timestamp

\* C40, as stated: the size validate_batch estimates is 72 bytes plus the
\* length of the proof data plus 176 bytes per block; a batch is accepted
\* only if this size is at most max_batch_size_bytes and rejected otherwise.
C40_SizeRule176PerBlock ==
    verdict # None
    => LET v == validator[1]
           batch == candidate[1]
           size == 72 + batch.data_proof_len + 176 * Len(batch.blocks)
       IN  /\ estimate_batch_size(batch) = size
           /\ verdict[1].ok => size <= v.max_batch_size_bytes
           /\ size > v.max_batch_size_bytes => ~verdict[1].ok

\* C40 as the code has it: the estimate counts 180 bytes per block; a batch
\* is accepted only if the estimate is at most max_batch_size_bytes, is
\* rejected otherwise, and is accepted at the limit when it passes every
\* other check.
C40_SizeRule180PerBlock ==
    verdict # None
    => LET v == validator[1]
           batch == candidate[1]
           size == 72 + batch.data_proof_len + 180 * Len(batch.blocks)
       IN  /\ estimate_batch_size(batch) = size
           /\ verdict[1].ok => size <= v.max_batch_size_bytes
           /\ size > v.max_batch_size_bytes => ~verdict[1].ok
           /\ (PassesOtherChecks(v, batch) /\ size <= v.max_batch_size_bytes)
                 => verdict[1].ok

C40_Witness ==
    /\ verdict = Some(ValidOk)
    /\ Len(candidate[1].blocks) = 1
    /\ candidate[1].data_proof_len = 0
    /\ validator[1].max_batch_size_bytes = 252
    /\ estimate_batch_size(candidate[1]) = 252

C6_ExecuteOnlyAfterMappingCommitted ==
    [][\A b \in BatchIds :
          (b \notin DOMAIN rollback_history /\ b \in DOMAIN rollback_history')
          => b \in DOMAIN batch_mappings]_vars

\* C7: when the rollback of a batch has been executed, the mapping index
\* holds no BatchMapping with batch_id >= that batch and no BlockMapping with
\* block_number >= that batch's start_block.
C7_MappingsPrunedAfterRollback ==
    [][\A b \in BatchIds :
          (b \notin DOMAIN rollback_history /\ b \in DOMAIN rollback_history')
          => /\ \A k \in DOMAIN batch_mappings' : k < b
             /\ b \in DOMAIN batch_mappings
                => \A n \in DOMAIN block_mappings' :
                       n < batch_mappings[b].start_block]_vars

\* C10: in the ingestion loop the source checkpoint moves to a batch only
\* after that batch has been committed to the index.
C10_CheckpointFollowsCommit ==
    [][(current_checkpoint' # current_checkpoint /\ current_checkpoint' # None)
       => LET cp == current_checkpoint'[1]
          IN  /\ cp.last_batch_id \in DOMAIN batch_mappings
              /\ batch_mappings[cp.last_batch_id].batch_hash
                     = cp.last_batch_hash]_vars

\* --------------------------------- claims on the source and the checkpoints

\* C8: of two consecutive successful results a, b of next() on one source,
\* b.id.number > a.id.number.
C8_NextStrictlyIncreasing ==
    (prev_some # None /\ last_some # None)
    => last_some[1].number > prev_some[1].number

\* C9: a stored checkpoint (in the checkpoint storage or in the source) is
\* replaced only by one with a strictly greater last_batch_id.  Clearing
\* (delete_checkpoint) is exempt; no rollback step of the code writes a
\* checkpoint, so every other replacement falls under the claim.
C9_CheckpointOnlyAdvances ==
    [][/\ (checkpoint_storage # None /\ checkpoint_storage' # None
             /\ checkpoint_storage' # checkpoint_storage)
          => checkpoint_storage'[1].last_batch_id
                 > checkpoint_storage[1].last_batch_id
       /\ (current_checkpoint # None /\ current_checkpoint' # None
             /\ current_checkpoint' # current_checkpoint)
          => current_checkpoint'[1].last_batch_id
                 > current_checkpoint[1].last_batch_id]_vars

\* ----------------------------------------------- claims on the ingestion loop

\* C11: the ingestion loop saves a BatchMapping or a BlockMapping only for a
\* batch that BatchValidator::validate_batch accepts; a batch it rejects with
\* InvalidBatchData (id.number = 0 for one) is never indexed.
C11_NoMappingForInvalidBatch ==
    [][(batch_mappings' # batch_mappings \/ block_mappings' # block_mappings)
       => (inflight # None /\ validate_batch(inflight[1]).ok)]_vars

\* C13: when a BatchMapping for number n with hash h is stored and the loop
\* commits a (valid) batch with the same number and another hash, the stored
\* mapping keeps hash h: it is not replaced.
C13_NoSilentReplacement ==
    [][\A n \in DOMAIN batch_mappings :
          (ingest_pc = "commit" /\ inflight # None
              /\ validate_batch(inflight[1]).ok
              /\ inflight[1].number = n
              /\ inflight[1].hash # batch_mappings[n].batch_hash)
          => (n \in DOMAIN batch_mappings'
                 /\ batch_mappings'[n].batch_hash
                        = batch_mappings[n].batch_hash)]_vars

\* C14: committing a (valid) batch whose number, hash and blocks are those
\* of a batch already in the index, at any later moment, leaves the mapping
\* storage as it was.
C14_ReingestionIdempotent ==
    [][\A n \in DOMAIN batch_mappings :
          (ingest_pc = "commit" /\ inflight # None
              /\ validate_batch(inflight[1]).ok
              /\ inflight[1].number = n
              /\ inflight[1].hash = batch_mappings[n].batch_hash
              /\ inflight[1].nblocks = batch_mappings[n].block_count)
          => mapping_vars' = mapping_vars]_vars

\* C15: after next() returned a Serialization error the loop has stopped:
\* the error is not retried.
C15_SerializationErrorStopsLoop ==
    next_result = NextErr("SerializationError") => ingest_pc = "done"

\* Number of blocks in batches 1..k of the index: the highest L2 block number
\* when the blocks are numbered from 1 on.
RECURSIVE BlocksUpTo(_, _)
BlocksUpTo(mappings, k) ==
    IF k = 0 THEN 0
    ELSE mappings[k].block_count + BlocksUpTo(mappings, k - 1)

\* C18: when the loop has processed batches #1..#k in this order, the head
\* block of the engine is the highest L2 block of these batches, a
\* BatchMapping exists for each of them, and the checkpoint's last_batch_id
\* is k.
C18_HeadMappingsCheckpointAfterIngest ==
    \A k \in 1..MaxBatches :
        (ingested = [i \in 1..k |-> i] /\ ingest_pc # "commit")
        => /\ \A i \in 1..k : i \in DOMAIN batch_mappings
           /\ current_checkpoint # None
           /\ current_checkpoint[1].last_batch_id = k
           /\ get_head_block(facade, 0) = BlocksUpTo(batch_mappings, k)

\* C32: a stored BatchMapping of a batch has a stored BlockMapping for every
\* block of the batch: the block mappings are written before the batch
\* mapping, so no state has a batch mapping without them.
C32_NoOrphanBatchMapping ==
    \A b \in DOMAIN batch_mappings :
        b # 0 =>
            Cardinality({ n \in DOMAIN block_mappings :
                            block_mappings[n].batch_id = b })
                >= batch_mappings[b].block_count

\* C33: every stored BatchMapping of a batch with blocks has
\* block_count = end_block - start_block + 1, and create_batch_mapping
\* returns this count for every start_block <= end_block.
C33_BlockCountIsEndMinusStartPlusOne ==
    /\ \A b \in DOMAIN batch_mappings :
          batch_mappings[b].block_count >= 1
          => batch_mappings[b].block_count =
                batch_mappings[b].end_block - batch_mappings[b].start_block + 1
    /\ \A start_block \in MappingKeys, end_block \in MappingKeys :
          start_block <= end_block
          => create_batch_mapping(1, 1, start_block, end_block, 0, now).block_count
                = end_block - start_block + 1

\* C34: after the k-th failed next() in a row with a retryable error
\* (NetworkError, HttpError) the loop waits retry_delay's exponential
\* backoff, 1, 2, 4, ... seconds capped at max_delay, before the next call.
C34_WaitIsExponentialBackoff ==
    (/\ failures >= 1
     /\ next_result.tag = "Err"
     /\ next_result.error \in { "NetworkError", "HttpError" })
    => retry_wait = Some(retry_delay(failures - 1).secs)

\* C35: a next() that returned None does not end the loop.
C35_NoneDoesNotEndLoop ==
    next_result = NextNone => ingest_pc # "done"

C37_NextAdvancesCheckpointOnSomeOnly ==
    [][next_parity' # next_parity
       => /\ next_result'.tag = "Some"
             => /\ current_checkpoint' =
                      Some([ last_batch_id |-> next_result'.batch.number,
                             last_batch_hash |-> next_result'.batch.hash ])
                /\ next_from_batch(current_checkpoint') =
                      Some(next_result'.batch.number + 1)
          /\ next_result'.tag \in { "None", "Err" }
             => current_checkpoint' = current_checkpoint
          /\ (/\ next_result.tag = "Some"
              /\ current_checkpoint = Some(from_batch(next_result.batch)))
             => requested_from' = Some(next_result.batch.number + 1)]_vars

C37_Witness ==
    /\ next_parity = FALSE
    /\ next_result.tag = "Some"
    /\ next_result.batch.number = 2
    /\ requested_from = Some(2)
    /\ current_checkpoint = Some(from_batch(next_result.batch))
    /\ next_from_batch(current_checkpoint) = Some(3)

\* ------------------------------------------ claims on the finality oracle

\* C38: a poll() called less than the polling interval after the latest
\* successful poll (or after creation) returns the empty list without
\* querying L1; last_poll is set, to the time after the query, exactly when
\* L1 was queried and answered, so after a failed poll the interval is
\* still elapsed.
C38_PollIsRateLimitedSinceLastSuccess ==
    [][poll_parity' # poll_parity
       => /\ last_poll = last_success
          /\ now - last_success < polling_interval
             => /\ poll_result' = Some(PollOk(<< >>))
                /\ ~l1_queried'
                /\ last_poll' = last_poll
          /\ now - last_success >= polling_interval => l1_queried'
          /\ (l1_queried' /\ poll_result'[1].tag = "Ok") => last_poll' = now'
          /\ last_poll' # last_poll
             => l1_queried' /\ poll_result'[1].tag = "Ok"
          /\ poll_result'[1].tag = "Err"
             => /\ l1_queried'
                /\ last_poll' = last_poll
                /\ should_poll(last_poll', polling_interval', now')]_vars

C38_Witness ==
    /\ poll_result = Some(PollErr)
    /\ l1_queried
    /\ polling_interval = 1
    /\ last_poll = 1
    /\ last_success = 1
    /\ now = 2

\* C39: a response of finalized_batch() reports a tag of status Finalized,
\* the latest tag of the poll.
C39_FinalizedBatchReportsFinalizedOnly ==
    (/\ finalized_response # None
     /\ finalized_response[1].tag = "Ok"
     /\ finalized_response[1].response # None)
    => LET tags == poll_result[1].tags
       IN  /\ finalized_response[1].response[1].status = "Finalized"
           /\ tags[Len(tags)].status = "Finalized"

\* ------------------------------------------- claims on the MappingStorage


\* C12: every stored BlockMapping m has a stored BatchMapping n with
\* n.batch_id = m.batch_id and n.start_block <= m.block_number <= n.end_block.
C12_BlockMappingHasBatchMapping ==
    \A k \in DOMAIN block_mappings :
        \E n \in DOMAIN batch_mappings :
            /\ batch_mappings[n].batch_id = block_mappings[k].batch_id
            /\ batch_mappings[n].start_block <= block_mappings[k].block_number
            /\ block_mappings[k].block_number <= batch_mappings[n].end_block

\* What load returns from the store of the given name.
LoadFrom(store, block, batch, epoch, key) ==
    CASE store = "block" -> load_block_mapping(block, key)
      [] store = "batch" -> load_batch_mapping(batch, key)
      [] store = "epoch" -> load_epoch_mapping(epoch, key)

\* C20: for each of the block, batch and epoch stores: right after save(x),
\* load(key(x)) returns Some(x); right after delete(k), load(k) returns None;
\* and the call changes what load returns for no other key of the store and
\* for no key of the two other stores.  (A value thus stays until the next
\* save or delete of its own key.)
C20_SaveLoadDelete ==
    [][last_call' # None =>
       LET call == last_call'[1]
       IN  /\ LoadFrom(call.store, block_mappings', batch_mappings',
                       epoch_mappings', call.key)
                  = IF call.op = "save" THEN call.value ELSE None
           /\ \A store \in { "block", "batch", "epoch" } :
                 \A key \in MappingKeys :
                     (store # call.store \/ key # call.key)
                     => LoadFrom(store, block_mappings', batch_mappings',
                                 epoch_mappings', key)
                            = LoadFrom(store, block_mappings, batch_mappings,
                                       epoch_mappings, key)]_vars

\* A delete has removed one key of the batch store while another key of that
\* store and a key of the block store still load their saved mappings.
C20_Witness ==
    /\ last_call # None
    /\ last_call[1].op = "delete"
    /\ last_call[1].store = "batch"
    /\ load_batch_mapping(batch_mappings, last_call[1].key) = None
    /\ \E k \in MappingKeys :
          /\ k # last_call[1].key
          /\ load_batch_mapping(batch_mappings, k) # None
          /\ load_batch_mapping(batch_mappings, k)[1].batch_id = k
    /\ \E k \in MappingKeys : load_block_mapping(block_mappings, k) # None

\* ------------------------------------------------ claims on the two loops

\* C16: once a stop is requested, both loops eventually exit, and the
\* ingestion loop leaves a commit step only by completing it.
C16_CancelStopsLoops ==
    /\ cancel ~> (ingest_pc = "done" /\ finality_pc = "done")
    /\ [][ingest_pc = "commit" => ingest_pc' \in { "commit", "loop" }]_vars

\* ---------------------------------------------- claims on the EngineFacade

\* C17: when a Finalized tag for a batch b of the index has been processed,
\* get_final_block() is BatchMapping[b].end_block and is_final(n) holds for
\* every n up to that block.
C17_FinalBlockIsEndOfBatch ==
    [][\A b \in BatchIds :
          (last_tag' # last_tag
              /\ last_tag' = Some([ batch_id |-> b, status |-> "Finalized" ])
              /\ tag_result'.ok
              /\ b \in DOMAIN batch_mappings)
          => /\ get_final_block(facade', finalized_block')
                    = batch_mappings'[b].end_block
             /\ \A n \in 0..batch_mappings'[b].end_block :
                    is_final(facade', finalized_block', n)]_vars

\* C19: process_finality_tag goes through mark_final for a Finalized tag,
\* through rollback_to for a RolledBack tag, and through no engine
\* operation for a Pending tag.
C19_TagDispatch ==
    last_tag # None
    => CASE last_tag[1].status = "Finalized" ->
                tag_calls # << >> /\ Head(tag_calls) = "mark_final"
         [] last_tag[1].status = "RolledBack" ->
                \E i \in 1..Len(tag_calls) : tag_calls[i] = "rollback_to"
         [] last_tag[1].status = "Pending" ->
                tag_calls = << >>

====
